---- MODULE Spec2Model ----
(***************************************************************************)
(* Verification model of the architecture-diagram pipeline of              *)
(* terraformcoder-ai:                                                      *)
(*   - the diagram panel (EnhancedArchitectureDiagram.jsx): its React      *)
(*     state, the container the rendering engine draws into, and the       *)
(*     engine calls in flight;                                             *)
(*   - the share-link codec (MermaidChartService in services/api.js),      *)
(*     computed on strings of UTF-16 code units;                           *)
(*   - the diagram text parser (parseMermaidDiagram in services/api.js),   *)
(*     its regular expressions computed on the same strings;               *)
(*   - what the panel lists and which of its actions are enabled.          *)
(***************************************************************************)
EXTENDS Integers, Sequences, FiniteSets, TLC

(***************************************************************************)
(* Bounds                                                                  *)
(***************************************************************************)
\* cap on the number of rendering-engine invocations in one behaviour
MaxCalls == 3
\* cap on the number of render-proxy requests in one behaviour
MaxProxyCalls == 1

(***************************************************************************)
(* The diagram panel                                                       *)
(***************************************************************************)
\* diagram texts the generation backend may deliver, as UTF-16 code units
\* (the engine is opaque to the panel): graph TD\nA-->B and graph LR\nX-->Y
DiagramTexts ==
  {<<103, 114, 97, 112, 104, 32, 84, 68, 10, 65, 45, 45, 62, 66>>,
   <<103, 114, 97, 112, 104, 32, 76, 82, 10, 88, 45, 45, 62, 89>>}
\* payload present but diagram_mermaid_syntax undefined or empty (both falsy)
NoText == <<>>
\* the architectureDiagram prop is undefined
NoDiagram == [present |-> FALSE]
\* components or connections undefined or empty: the panel tests x && x.length > 0
NoList == <<>>

\* the backend delivers the text alone or together with both lists: the
\* components Web Server, Database and the connection Web Server ->
\* Database of type data
PayloadLists ==
  {[components |-> NoList, connections |-> NoList],
   [components |-> <<<<87, 101, 98, 32, 83, 101, 114, 118, 101, 114>>,
                      <<68, 97, 116, 97, 98, 97, 115, 101>>>>,
    connections |-> <<[from |-> <<87, 101, 98, 32, 83, 101, 114, 118, 101, 114>>,
                       to |-> <<68, 97, 116, 97, 98, 97, 115, 101>>,
                       type |-> "data"]>>]}

Payloads ==
  {[present |-> TRUE, diagram_mermaid_syntax |-> t,
    components |-> l.components, connections |-> l.connections] :
     t \in DiagramTexts \cup {NoText}, l \in PayloadLists}

\* mermaidRef.current is null (the container <div> is not mounted)
NullRef == [kind |-> "null"]
\* a freshly mounted container: innerHTML is empty
EmptyContainer == [kind |-> "empty"]
\* innerHTML holds the markup the engine returned for text t
SvgOf(t) == [kind |-> "svg", of |-> t]
\* innerHTML holds the "Error rendering diagram" block
ErrorMarkup == [kind |-> "error"]

VARIABLES
  architectureDiagram,  \* the prop handed down by the dashboard
  isExpanded,           \* useState(true)
  diagramError,         \* useState(false)
  mermaidRef,           \* useRef(null): NullRef or the container's innerHTML
  inflight,             \* unresolved mermaid.render promises: [id, text]
  engineCalls,          \* history: texts passed to mermaid.render, in order
  proxyInflight,        \* unresolved fetch('/api/mermaid/render') requests
  proxyCalls,           \* history: number of render-proxy requests issued
  event,                \* history: the handler that ran last
  dashboardResult,      \* the dashboard's result state, which feeds the prop
  diagramSpec,          \* the diagram handed to the codec
  result,               \* the value the last codec operation returned
  enhancedDashboard,    \* the useState values of EnhancedDashboard
  dashboard,            \* the useState values of the validating Dashboard
  requests,             \* history: the last two posts to /api/generate
  pageEvent             \* history: the page handler that ran last

panelVars == <<architectureDiagram, isExpanded, diagramError, mermaidRef,
               inflight, engineCalls, proxyInflight, proxyCalls, event,
               dashboardResult>>

codecVars == <<diagramSpec, result>>

pageVars == <<enhancedDashboard, dashboard, requests, pageEvent>>

vars == <<panelVars, codecVars, pageVars>>

\* no diagram has been handed to the codec, no operation has returned
NoSpec == [rawText |-> <<>>, theme |-> <<>>, themeVariables |-> <<>>]
NoResult == [op |-> "none"]

\* architectureDiagram?.diagram_mermaid_syntax
SyntaxOf(ad) == IF ad = NoDiagram THEN NoText ELSE ad.diagram_mermaid_syntax

Syntax == SyntaxOf(architectureDiagram)

\* the container <div ref={mermaidRef}> is part of the rendered tree
ContainerMounted(expanded, ad) == expanded /\ SyntaxOf(ad) # NoText

\* the ref after a commit: an element that stays mounted keeps its innerHTML,
\* a newly mounted one is empty, an unmounted one leaves the ref null
RefAfterCommit(expanded, ad) ==
  IF ~ContainerMounted(expanded, ad) THEN NullRef
  ELSE IF mermaidRef = NullRef THEN EmptyContainer
  ELSE mermaidRef

\* a generation result whose architecture_diagram is ad; the panel is
\* rendered with architectureDiagram={result.architecture_diagram}
ResultWith(ad) ==
  [is_valid_request |-> TRUE, files |-> <<"main.tf", "variables.tf">>,
   resources |-> <<"aws_instance", "aws_db_instance">>,
   estimated_cost |-> "Medium", architecture_diagram |-> ad]

\* both pages right after mounting: EnhancedDashboard with its useState
\* defaults; Dashboard with its defaults and the loadHistory call of the
\* mount effect unresolved.  errors is the object {}: a function on the
\* set of its keys
PageInit ==
  /\ enhancedDashboard = [description |-> <<>>, provider |-> "aws",
                          result |-> "null", isGenerating |-> FALSE,
                          includeDiagram |-> TRUE]
  /\ dashboard = [description |-> <<>>, selectedProvider |-> "aws",
                  result |-> "null", isGenerating |-> FALSE,
                  errors |-> [k \in {} |-> ""], history |-> {},
                  awaiting |-> {"mount"}]
  /\ requests = <<>>
  /\ pageEvent = "mount"

PanelInit ==
  /\ architectureDiagram = NoDiagram
  /\ dashboardResult = ResultWith(NoDiagram)
  /\ isExpanded = TRUE
  /\ diagramError = FALSE
  /\ mermaidRef = NullRef
  /\ inflight = {}
  /\ engineCalls = <<>>
  /\ proxyInflight = {}
  /\ proxyCalls = 0
  /\ event = [type |-> "mount"]

\* variant: the handler keeps rendering the text of the props it first saw
renderMermaidDiagramStaleProps(text) ==
  /\ Len(engineCalls) < MaxCalls
  /\ diagramError' = FALSE
  /\ inflight' = inflight \cup {[id |-> Len(engineCalls) + 1,
                                 text |-> IF engineCalls = <<>> THEN text ELSE engineCalls[1]]}
  /\ engineCalls' = Append(engineCalls, IF engineCalls = <<>> THEN text ELSE engineCalls[1])

\* renderMermaidDiagram up to its await: clears the error flag and hands the
\* text of the current props to mermaid.render
renderMermaidDiagram(text) ==
  /\ Len(engineCalls) < MaxCalls
  /\ diagramError' = FALSE
  /\ inflight' = inflight \cup {[id |-> Len(engineCalls) + 1, text |-> text]}
  /\ engineCalls' = Append(engineCalls, text)

\* variant: an effect without dependency array runs after every render
EffectRunsEveryRender(old, new) == TRUE

\* the effect's dependency array: it runs only when the text changed
EffectRuns(old, new) == old # new

\* the parent re-renders the panel with payload ad; after the commit the
\* effect on [architectureDiagram?.diagram_mermaid_syntax] may run
SubmitDiagram(ad) ==
  /\ dashboardResult' = ResultWith(ad)
  /\ architectureDiagram' = dashboardResult'.architecture_diagram
  /\ isExpanded' = isExpanded
  /\ mermaidRef' = RefAfterCommit(isExpanded, ad)
  /\ event' = [type |-> "submit", text |-> SyntaxOf(ad),
               changed |-> SyntaxOf(ad) # Syntax]
  /\ IF /\ EffectRuns(Syntax, SyntaxOf(ad))
        /\ SyntaxOf(ad) # NoText
        /\ RefAfterCommit(isExpanded, ad) # NullRef
     THEN renderMermaidDiagram(SyntaxOf(ad))
     ELSE UNCHANGED <<diagramError, inflight, engineCalls>>
  /\ UNCHANGED <<proxyInflight, proxyCalls>>
  /\ UNCHANGED <<codecVars, pageVars>>

\* click on the card header: setIsExpanded(!isExpanded)
ToggleExpanded ==
  /\ architectureDiagram # NoDiagram
  /\ isExpanded' = ~isExpanded
  /\ mermaidRef' = IF ContainerMounted(~isExpanded, architectureDiagram)
                   THEN EmptyContainer ELSE NullRef
  /\ event' = [type |-> "toggle", shown |-> mermaidRef]
  /\ UNCHANGED <<dashboardResult, architectureDiagram, diagramError, inflight, engineCalls,
                 proxyInflight, proxyCalls>>
  /\ UNCHANGED <<codecVars, pageVars>>

\* click on the "Refresh Diagram" button
RefreshDiagram ==
  /\ ContainerMounted(isExpanded, architectureDiagram)
  /\ renderMermaidDiagram(Syntax)
  /\ event' = [type |-> "refresh", text |-> Syntax]
  /\ UNCHANGED <<dashboardResult, architectureDiagram, isExpanded, mermaidRef,
                 proxyInflight, proxyCalls>>
  /\ UNCHANGED <<codecVars, pageVars>>

\* mermaid.render fulfilled for call c
RenderResolved(c) ==
  /\ c \in inflight
  /\ inflight' = inflight \ {c}
  /\ mermaidRef' = IF mermaidRef # NullRef THEN SvgOf(c.text) ELSE mermaidRef
  /\ event' = [type |-> "resolved", text |-> c.text, id |-> c.id]
  /\ UNCHANGED <<dashboardResult, architectureDiagram, isExpanded, diagramError, engineCalls,
                 proxyInflight, proxyCalls>>
  /\ UNCHANGED <<codecVars, pageVars>>

\* variant: the catch block starts the render again by itself
RenderRejectedAutoRetry(c) ==
  /\ c \in inflight
  /\ Len(engineCalls) < MaxCalls
  /\ inflight' = (inflight \ {c}) \cup {[id |-> Len(engineCalls) + 1, text |-> c.text]}
  /\ engineCalls' = Append(engineCalls, c.text)
  /\ diagramError' = TRUE
  /\ mermaidRef' = IF mermaidRef # NullRef THEN ErrorMarkup ELSE mermaidRef
  /\ event' = [type |-> "rejected", text |-> c.text, id |-> c.id]
  /\ UNCHANGED <<dashboardResult, architectureDiagram, isExpanded, proxyInflight, proxyCalls>>
  /\ UNCHANGED <<codecVars, pageVars>>

\* variant: the catch block also reports the failure to the dashboard,
\* which drops its generation result
RenderRejectedClearsResult(c) ==
  /\ c \in inflight
  /\ inflight' = inflight \ {c}
  /\ diagramError' = TRUE
  /\ mermaidRef' = IF mermaidRef # NullRef THEN ErrorMarkup ELSE mermaidRef
  /\ event' = [type |-> "rejected", text |-> c.text, id |-> c.id]
  /\ dashboardResult' = [dashboardResult EXCEPT !.files = <<>>, !.resources = <<>>,
                                                 !.estimated_cost = "Unknown"]
  /\ UNCHANGED <<architectureDiagram, isExpanded, engineCalls,
                 proxyInflight, proxyCalls>>
  /\ UNCHANGED <<codecVars, pageVars>>

\* mermaid.render rejected for call c: the catch block
RenderRejected(c) ==
  /\ c \in inflight
  /\ inflight' = inflight \ {c}
  /\ diagramError' = TRUE
  /\ mermaidRef' = IF mermaidRef # NullRef THEN ErrorMarkup ELSE mermaidRef
  /\ event' = [type |-> "rejected", text |-> c.text, id |-> c.id]
  /\ UNCHANGED <<dashboardResult, architectureDiagram, isExpanded, engineCalls,
                 proxyInflight, proxyCalls>>
  /\ UNCHANGED <<codecVars, pageVars>>

Next ==
  \/ \E ad \in Payloads \cup {NoDiagram} : SubmitDiagram(ad)
  \/ ToggleExpanded
  \/ RefreshDiagram
  \/ \E c \in inflight : RenderResolved(c)
  \/ \E c \in inflight : RenderRejected(c)

Init == PanelInit /\ PageInit /\ diagramSpec = NoSpec /\ result = NoResult

Spec == Init /\ [][Next]_vars

(***************************************************************************)
(* The render proxy: fetchMermaidSecure                                    *)
(***************************************************************************)
\* fetchMermaidSecure(code) up to its first await: the POST is issued
fetchMermaidSecure(code) ==
  /\ proxyCalls < MaxProxyCalls
  /\ proxyCalls' = proxyCalls + 1
  /\ proxyInflight' = proxyInflight \cup {[id |-> proxyCalls + 1, code |-> code]}
  /\ event' = [type |-> "proxyRequest", text |-> code]
  /\ UNCHANGED <<dashboardResult, architectureDiagram, isExpanded, diagramError, mermaidRef,
                 inflight, engineCalls>>
  /\ UNCHANGED <<codecVars, pageVars>>

\* res.ok: the body is written into the container; with a null ref the
\* assignment throws a TypeError that the catch block only logs
ProxyResponseOk(r) ==
  /\ r \in proxyInflight
  /\ proxyInflight' = proxyInflight \ {r}
  /\ mermaidRef' = IF mermaidRef # NullRef THEN SvgOf(r.code) ELSE mermaidRef
  /\ event' = [type |-> "proxyOk", text |-> r.code]
  /\ UNCHANGED <<dashboardResult, architectureDiagram, isExpanded, diagramError, inflight,
                 engineCalls, proxyCalls>>
  /\ UNCHANGED <<codecVars, pageVars>>

\* !res.ok: throw new Error(await res.text()), caught and logged
ProxyResponseNotOk(r, body) ==
  /\ r \in proxyInflight
  /\ proxyInflight' = proxyInflight \ {r}
  /\ event' = [type |-> "proxyFailed", text |-> r.code, reason |-> body]
  /\ UNCHANGED <<dashboardResult, architectureDiagram, isExpanded, diagramError, mermaidRef,
                 inflight, engineCalls, proxyCalls>>
  /\ UNCHANGED <<codecVars, pageVars>>

\* fetch itself rejects (network level), caught and logged
ProxyNetworkError(r) ==
  /\ r \in proxyInflight
  /\ proxyInflight' = proxyInflight \ {r}
  /\ event' = [type |-> "proxyFailed", text |-> r.code, reason |-> "network error"]
  /\ UNCHANGED <<dashboardResult, architectureDiagram, isExpanded, diagramError, mermaidRef,
                 inflight, engineCalls, proxyCalls>>
  /\ UNCHANGED <<codecVars, pageVars>>

NextProxy ==
  \/ \E ad \in Payloads \cup {NoDiagram} : SubmitDiagram(ad)
  \/ ToggleExpanded
  \/ RefreshDiagram
  \/ \E c \in inflight : RenderResolved(c)
  \/ \E c \in inflight : RenderRejected(c)
  \/ \E code \in DiagramTexts : fetchMermaidSecure(code)
  \/ \E r \in proxyInflight : ProxyResponseOk(r)
  \/ \E r \in proxyInflight, body \in {"Unauthorized", "render failed"} : ProxyResponseNotOk(r, body)
  \/ \E r \in proxyInflight : ProxyNetworkError(r)

\* the panel together with the render-proxy helper
SpecProxy == Init /\ [][NextProxy]_vars

(***************************************************************************)
(* Properties of the panel                                                 *)
(***************************************************************************)
\* number of engine invocations made with text t
CallsFor(t) == Cardinality({i \in 1..Len(engineCalls) : engineCalls[i] = t})

\* C1: stale discard.  Once a different text has been submitted and its
\* render started, the resolution (success or failure) of the render that
\* was started for the superseded text changes neither the container's
\* content nor the error flag.
StaleDiscard ==
  [][(/\ event'.type \in {"resolved", "rejected"}
      /\ event'.text # Syntax
      /\ event'.id < Len(engineCalls)
      /\ engineCalls[Len(engineCalls)] = Syntax)
     => UNCHANGED <<mermaidRef, diagramError>>]_vars

\* C2: at most one rendering-engine call is unresolved at any time.
AtMostOneOutstanding == Cardinality(inflight) <= 1

\* C3: single-flight.  Submitting the text that is already tracked while
\* its render is in flight invokes the engine no further: the invocation
\* made for the first submit stays the only one.
SingleFlight ==
  [][(/\ event'.type = "submit"
      /\ SyntaxOf(architectureDiagram') = Syntax
      /\ \E c \in inflight : c.text = Syntax)
     => (engineCalls' = engineCalls /\ inflight' = inflight)]_vars

\* C3 witness: the tracked text was submitted again while its render is in
\* flight, and the engine has been invoked once for it
SingleFlightWitness ==
  /\ event.type = "submit"
  /\ ~event.changed
  /\ \E c \in inflight : c.text = Syntax
  /\ CallsFor(Syntax) = 1

\* C4: every submit of a non-empty text that differs from the tracked one
\* starts a render of the new text, whatever the UI state of the panel.
SubmitStartsRender ==
  [][(/\ event'.type = "submit"
      /\ SyntaxOf(architectureDiagram') # NoText
      /\ SyntaxOf(architectureDiagram') # Syntax)
     => (/\ engineCalls' = Append(engineCalls, SyntaxOf(architectureDiagram'))
         /\ \E c \in inflight' \ inflight : c.text = SyntaxOf(architectureDiagram'))]_vars

\* C5: a rejected engine call sets the error flag and issues no engine
\* call; engine calls are issued only by Refresh or by the submit of a
\* different text.
NoAutomaticRetry ==
  [][/\ (event'.type = "rejected" /\ inflight' # inflight)
          => (diagramError' /\ engineCalls' = engineCalls)
     /\ engineCalls' # engineCalls
          => \/ event'.type = "refresh"
             \/ (event'.type = "submit" /\ SyntaxOf(architectureDiagram') # Syntax)]_vars

\* C5 witness: a render was rejected, the panel is Failed and nothing is in
\* flight
NoAutomaticRetryWitness ==
  /\ event.type = "rejected"
  /\ diagramError
  /\ inflight = {}
  /\ Len(engineCalls) = 1

\* C6: Refresh clears the error flag and invokes the engine with the text
\* the panel currently tracks.
RetrySameText ==
  [][event'.type = "refresh" /\ engineCalls' # engineCalls
     => /\ ~diagramError'
        /\ engineCalls' = Append(engineCalls, Syntax)
        /\ \E c \in inflight' \ inflight : c.text = Syntax
        /\ UNCHANGED architectureDiagram]_vars

\* C6 witness: Refresh acted in the Failed state (the error block of the
\* failed attempt is still in the container) after the text had changed
RetrySameTextWitness ==
  /\ event.type = "refresh"
  /\ mermaidRef = ErrorMarkup
  /\ ~diagramError
  /\ Len(engineCalls) >= 3
  /\ engineCalls[1] # Syntax
  /\ engineCalls[Len(engineCalls)] = Syntax

\* C7: a failed render-proxy request puts the panel into Failed, and a
\* successful one makes the response text the displayed artifact.
ProxyFailureSurfaces ==
  /\ event.type = "proxyFailed" => diagramError
  /\ (event.type = "proxyOk" /\ mermaidRef # NullRef) => mermaidRef = SvgOf(event.text)

(***************************************************************************)
(* The share-link codec: MermaidChartService                               *)
(*                                                                         *)
(* Strings are sequences of UTF-16 code units, as in the JavaScript source.*)
(***************************************************************************)
\* longest diagram text drawn as input of the codec
MaxTextLen == 2

\* characters of the drawn diagram texts: A, the double quote, line feed,
\* e-acute (Latin-1), the rightwards arrow U+2192 (outside Latin-1) and an
\* unpaired high surrogate U+D800
TextAlphabet == {65, 34, 10, 233, 8594, 55296}

RECURSIVE StringsUpTo(_, _)
\* all strings over alphabet of length at most n
StringsUpTo(alphabet, n) ==
  IF n = 0 THEN {<<>>}
  ELSE LET shorter == StringsUpTo(alphabet, n - 1)
       IN  shorter \cup {Append(t, c) : t \in shorter, c \in alphabet}

RawTexts == StringsUpTo(TextAlphabet, MaxTextLen)

\* the string https://mermaid.live
liveEditorURL ==
  <<104, 116, 116, 112, 115, 58, 47, 47, 109, 101, 114, 109, 97, 105, 100,
  46, 108, 105, 118, 101>>
\* the theme names
Themes ==
  [
   \* the string dark
   dark |->
     <<100, 97, 114, 107>>,
   \* the string light
   light |->
     <<108, 105, 103, 104, 116>>
  ]

\* names of the theme variables, as characters
KeyChars ==
  [primaryColor |-> <<112, 114, 105, 109, 97, 114, 121, 67, 111, 108, 111, 114>>,
   primaryTextColor |-> <<112, 114, 105, 109, 97, 114, 121, 84, 101, 120, 116, 67, 111, 108, 111, 114>>,
   primaryBorderColor |-> <<112, 114, 105, 109, 97, 114, 121, 66, 111, 114, 100, 101, 114, 67, 111, 108, 111, 114>>,
   lineColor |-> <<108, 105, 110, 101, 67, 111, 108, 111, 114>>,
   secondaryColor |-> <<115, 101, 99, 111, 110, 100, 97, 114, 121, 67, 111, 108, 111, 114>>,
   tertiaryColor |-> <<116, 101, 114, 116, 105, 97, 114, 121, 67, 111, 108, 111, 114>>,
   fontSize |-> <<102, 111, 110, 116, 83, 105, 122, 101>>]

\* the built-in theme of createLiveEditorLink
DefaultThemeVariables ==
  [primaryColor |-> <<35, 49, 48, 98, 57, 56, 49>>,
   primaryTextColor |-> <<35, 102, 49, 102, 53, 102, 57>>,
   primaryBorderColor |-> <<35, 48, 53, 57, 54, 54, 57>>,
   lineColor |-> <<35, 54, 52, 55, 52, 56, 98>>,
   secondaryColor |-> <<35, 49, 101, 50, 57, 51, 98>>,
   tertiaryColor |-> <<35, 51, 51, 52, 49, 53, 53>>]

\* the theme variables createLiveEditorLink serialises, in source order
LiveEditorKeys ==
  <<"primaryColor", "primaryTextColor", "primaryBorderColor", "lineColor",
    "secondaryColor", "tertiaryColor">>

\* "0123456789abcdef" / "0123456789ABCDEF": the digit for a value 0..15
HexLower(d) == IF d < 10 THEN 48 + d ELSE 97 + (d - 10)
HexUpper(d) == IF d < 10 THEN 48 + d ELSE 65 + (d - 10)

IsHighSurrogate(c) == c >= 55296 /\ c <= 56319
IsLowSurrogate(c) == c >= 56320 /\ c <= 57343

\* position i of s holds a surrogate that is not half of a pair
LoneSurrogateAt(s, i) ==
  \/ IsHighSurrogate(s[i]) /\ ~(i < Len(s) /\ IsLowSurrogate(s[i + 1]))
  \/ IsLowSurrogate(s[i]) /\ ~(i > 1 /\ IsHighSurrogate(s[i - 1]))

\* JSON.stringify of one character inside a string literal
JSONEscapeChar(s, i) ==
  LET c == s[i] IN
  IF c = 34 THEN <<92, 34>>
  ELSE IF c = 92 THEN <<92, 92>>
  ELSE IF c = 10 THEN <<92, 110>>
  ELSE IF c = 13 THEN <<92, 114>>
  ELSE IF c = 9 THEN <<92, 116>>
  ELSE IF c = 8 THEN <<92, 98>>
  ELSE IF c = 12 THEN <<92, 102>>
  ELSE IF c < 32 \/ LoneSurrogateAt(s, i)
       THEN <<92, 117, HexLower(c \div 4096), HexLower((c \div 256) % 16),
              HexLower((c \div 16) % 16), HexLower(c % 16)>>
  ELSE <<c>>

RECURSIVE JSONEscapeFrom(_, _)
JSONEscapeFrom(s, i) ==
  IF i > Len(s) THEN <<>> ELSE JSONEscapeChar(s, i) \o JSONEscapeFrom(s, i + 1)

\* variant: the literal is built by pasting the text between two quotes
JSONQuoteUnescaped(s) == <<34>> \o s \o <<34>>

\* JSON.stringify of a string value: the quoted, escaped literal
JSONQuote(s) == <<34>> \o JSONEscapeFrom(s, 1) \o <<34>>

\* JSON.stringify of the member "key":"value"
JSONMember(key, value) == JSONQuote(key) \o <<58>> \o JSONQuote(value)

RECURSIVE JSONMembersFrom(_, _, _)
\* the members of tv for the keys order[i..], comma separated
JSONMembersFrom(tv, order, i) ==
  IF i > Len(order) THEN <<>>
  ELSE (IF i > 1 THEN <<44>> ELSE <<>>)
       \o JSONMember(KeyChars[order[i]], tv[order[i]])
       \o JSONMembersFrom(tv, order, i + 1)

\* JSON.stringify of an object of string members, keys in insertion order
JSONStringMap(tv, order) == <<123>> \o JSONMembersFrom(tv, order, 1) \o <<125>>

\* index 0..63 to the character of the base64 alphabet A-Z a-z 0-9 + /
Base64Char(v) ==
  IF v < 26 THEN 65 + v
  ELSE IF v < 52 THEN 97 + (v - 26)
  ELSE IF v < 62 THEN 48 + (v - 52)
  ELSE IF v = 62 THEN 43 ELSE 47

\* btoa raises InvalidCharacterError on a character outside Latin-1
BtoaThrows(s) == \E i \in 1..Len(s) : s[i] > 255

\* btoa(s) for a Latin-1 string: three bytes become four characters, the
\* last group is padded with '='
btoa(s) ==
  LET n == Len(s)
      byte(i) == IF i <= n THEN s[i] ELSE 0
  IN  [k \in 1..(4 * ((n + 2) \div 3)) |->
         LET g == (k - 1) \div 4
             b1 == byte(3 * g + 1)
             b2 == byte(3 * g + 2)
             b3 == byte(3 * g + 3)
         IN  CASE (k - 1) % 4 = 0 -> Base64Char(b1 \div 4)
               [] (k - 1) % 4 = 1 -> Base64Char((b1 % 4) * 16 + b2 \div 16)
               [] (k - 1) % 4 = 2 -> IF 3 * g + 2 > n THEN 61
                                     ELSE Base64Char((b2 % 16) * 4 + b3 \div 64)
               [] OTHER -> IF 3 * g + 3 > n THEN 61 ELSE Base64Char(b3 % 64)]

\* encodeURIComponent leaves A-Z a-z 0-9 - _ . ! ~ * ' ( ) alone
URIUnreserved(c) ==
  \/ c >= 65 /\ c <= 90
  \/ c >= 97 /\ c <= 122
  \/ c >= 48 /\ c <= 57
  \/ c \in {45, 95, 46, 33, 126, 42, 39, 40, 41}

\* %XX with upper-case digits
PercentByte(b) == <<37, HexUpper(b \div 16), HexUpper(b % 16)>>

\* the UTF-8 bytes of code point cp, percent-encoded
PercentUTF8(cp) ==
  IF cp < 128 THEN PercentByte(cp)
  ELSE IF cp < 2048
    THEN PercentByte(192 + cp \div 64) \o PercentByte(128 + (cp % 64))
  ELSE IF cp < 65536
    THEN PercentByte(224 + cp \div 4096) \o PercentByte(128 + ((cp \div 64) % 64))
         \o PercentByte(128 + (cp % 64))
  ELSE PercentByte(240 + cp \div 262144) \o PercentByte(128 + ((cp \div 4096) % 64))
       \o PercentByte(128 + ((cp \div 64) % 64)) \o PercentByte(128 + (cp % 64))

\* encodeURIComponent raises URIError on an unpaired surrogate
EncodeURIComponentThrows(s) == \E i \in 1..Len(s) : LoneSurrogateAt(s, i)

RECURSIVE EncodeURIFrom(_, _)
EncodeURIFrom(s, i) ==
  IF i > Len(s) THEN <<>>
  ELSE IF URIUnreserved(s[i]) THEN <<s[i]>> \o EncodeURIFrom(s, i + 1)
  ELSE IF IsHighSurrogate(s[i]) /\ i < Len(s)
    THEN PercentUTF8(65536 + (s[i] - 55296) * 1024 + (s[i + 1] - 56320))
         \o EncodeURIFrom(s, i + 2)
  ELSE PercentUTF8(s[i]) \o EncodeURIFrom(s, i + 1)

\* encodeURIComponent(s) for a well-formed string
encodeURIComponent(s) == EncodeURIFrom(s, 1)

\* the constant pieces of the URLs built around the encoded configuration
UrlPieces ==
  [
   \* the string /edit#pako:
   editPako |->
     <<47, 101, 100, 105, 116, 35, 112, 97, 107, 111, 58>>,
   \* the string /edit#
   editHash |->
     <<47, 101, 100, 105, 116, 35>>,
   \* the string /edit
   edit |->
     <<47, 101, 100, 105, 116>>,
   \* the string /img/
   img |->
     <<47, 105, 109, 103, 47>>,
   \* the string ?format=
   formatQuery |->
     <<63, 102, 111, 114, 109, 97, 116, 61>>
  ]

\* the constant pieces of JSON.stringify(config) in the three link builders
ConfigJSON ==
  [
   \* the string {"code":
   codeKey |->
     <<123, 34, 99, 111, 100, 101, 34, 58>>,
   \* the string ,"mermaid":{"theme":
   themeKey |->
     <<44, 34, 109, 101, 114, 109, 97, 105, 100, 34, 58, 123, 34, 116, 104,
     101, 109, 101, 34, 58>>,
   \* the string ,"themeVariables":
   themeVariablesKey |->
     <<44, 34, 116, 104, 101, 109, 101, 86, 97, 114, 105, 97, 98, 108, 101,
     115, 34, 58>>,
   \* the string },"autoSync":true,"updateEditor":false}
   liveEditorTail |->
     <<125, 44, 34, 97, 117, 116, 111, 83, 121, 110, 99, 34, 58, 116, 114,
     117, 101, 44, 34, 117, 112, 100, 97, 116, 101, 69, 100, 105, 116, 111,
     114, 34, 58, 102, 97, 108, 115, 101, 125>>,
   \* the string ,"flowchart":{"htmlLabels":true,"curve":"basis"}},"autoSync":true,"updateEditor":true,"panZoom":true}
   interactiveTail |->
     <<44, 34, 102, 108, 111, 119, 99, 104, 97, 114, 116, 34, 58, 123, 34,
     104, 116, 109, 108, 76, 97, 98, 101, 108, 115, 34, 58, 116, 114, 117,
     101, 44, 34, 99, 117, 114, 118, 101, 34, 58, 34, 98, 97, 115, 105, 115,
     34, 125, 125, 44, 34, 97, 117, 116, 111, 83, 121, 110, 99, 34, 58, 116,
     114, 117, 101, 44, 34, 117, 112, 100, 97, 116, 101, 69, 100, 105, 116,
     111, 114, 34, 58, 116, 114, 117, 101, 44, 34, 112, 97, 110, 90, 111,
     111, 109, 34, 58, 116, 114, 117, 101, 125>>,
   \* the string }}
   downloadTail |->
     <<125, 125>>
  ]

\* the characters of the format names of createDownloadURLs
FormatChars ==
  [svg |-> <<115, 118, 103>>, png |-> <<112, 110, 103>>,
   pdf |-> <<112, 100, 102>>, jpeg |-> <<106, 112, 101, 103>>]

\* options.key || fallback: an absent or empty option takes the fallback
OptionOr(options, key, fallback) ==
  IF key \in DOMAIN options /\ options[key] # <<>> THEN options[key] ELSE fallback

\* the keys of a theme-variable object, in a fixed insertion order
OrderedKeys(tv) ==
  SelectSeq(<<"primaryColor", "primaryTextColor", "primaryBorderColor",
              "lineColor", "secondaryColor", "tertiaryColor", "fontSize">>,
            LAMBDA k : k \in DOMAIN tv)

\* a returned URL, a returned object of URLs, a raised exception
Url(u) == [kind |-> "url", url |-> u]
Urls(m) == [kind |-> "urls", urls |-> m]
Throws(e) == [kind |-> "throws", error |-> e]

\* JSON.stringify(config) in createLiveEditorLink
LiveEditorConfigJSON(mermaidCode, options) ==
  ConfigJSON.codeKey \o JSONQuote(mermaidCode)
  \o ConfigJSON.themeKey \o JSONQuote(OptionOr(options, "theme", Themes.dark))
  \o ConfigJSON.themeVariablesKey
  \o JSONStringMap([k \in DOMAIN DefaultThemeVariables |->
                      OptionOr(options, k, DefaultThemeVariables[k])],
                   LiveEditorKeys)
  \o ConfigJSON.liveEditorTail

\* createLiveEditorLink(mermaidCode, options)
createLiveEditorLink(mermaidCode, options) ==
  IF ~BtoaThrows(LiveEditorConfigJSON(mermaidCode, options))
  THEN Url(liveEditorURL \o UrlPieces.editPako
           \o btoa(LiveEditorConfigJSON(mermaidCode, options)))
  ELSE IF EncodeURIComponentThrows(mermaidCode) THEN Throws("URIError")
  ELSE Url(liveEditorURL \o UrlPieces.editHash \o encodeURIComponent(mermaidCode))

\* JSON.stringify(config) in createInteractiveEditorLink, for an
\* editorConfig that sets theme and themeVariables only
InteractiveConfigJSON(mermaidCode, editorConfig) ==
  ConfigJSON.codeKey \o JSONQuote(mermaidCode)
  \o ConfigJSON.themeKey \o JSONQuote(OptionOr(editorConfig, "theme", Themes.dark))
  \o ConfigJSON.themeVariablesKey
  \o (IF "themeVariables" \in DOMAIN editorConfig
      THEN JSONStringMap(editorConfig.themeVariables,
                         OrderedKeys(editorConfig.themeVariables))
      ELSE <<123, 125>>)
  \o ConfigJSON.interactiveTail

\* createInteractiveEditorLink(mermaidCode, editorConfig)
createInteractiveEditorLink(mermaidCode, editorConfig) ==
  IF ~BtoaThrows(InteractiveConfigJSON(mermaidCode, editorConfig))
  THEN Url(liveEditorURL \o UrlPieces.editPako
           \o btoa(InteractiveConfigJSON(mermaidCode, editorConfig)))
  ELSE Url(liveEditorURL \o UrlPieces.edit)

\* JSON.stringify(config) in createDownloadURLs
DownloadConfigJSON(mermaidCode) ==
  ConfigJSON.codeKey \o JSONQuote(mermaidCode)
  \o ConfigJSON.themeKey \o JSONQuote(Themes.dark) \o ConfigJSON.downloadTail

\* variant: the jpeg URL is built on a token of its own (the share-link
\* configuration) instead of the shared baseURL
createDownloadURLsOwnToken(mermaidCode) ==
  IF ~BtoaThrows(DownloadConfigJSON(mermaidCode))
  THEN Urls([f \in {"svg", "png", "pdf", "jpeg"} |->
               liveEditorURL \o UrlPieces.img
               \o (IF f = "jpeg" THEN btoa(LiveEditorConfigJSON(<<>>, <<>>))
                   ELSE btoa(DownloadConfigJSON(mermaidCode)))
               \o UrlPieces.formatQuery \o FormatChars[f]])
  ELSE Urls(<<>>)

\* createDownloadURLs(mermaidCode)
createDownloadURLs(mermaidCode) ==
  IF ~BtoaThrows(DownloadConfigJSON(mermaidCode))
  THEN Urls([f \in {"svg", "png", "pdf", "jpeg"} |->
               liveEditorURL \o UrlPieces.img \o btoa(DownloadConfigJSON(mermaidCode))
               \o UrlPieces.formatQuery \o FormatChars[f]])
  ELSE Urls(<<>>)

(***************************************************************************)
(* Decoding: the inverse of each encoding path                             *)
(***************************************************************************)
Failure == [ok |-> FALSE]

\* s holds literal at position i
HasAt(s, i, literal) ==
  /\ i >= 1
  /\ i + Len(literal) - 1 <= Len(s)
  /\ SubSeq(s, i, i + Len(literal) - 1) = literal

\* value of a hexadecimal digit, 16 for any other character
HexValue(c) ==
  IF c >= 48 /\ c <= 57 THEN c - 48
  ELSE IF c >= 97 /\ c <= 102 THEN c - 87
  ELSE IF c >= 65 /\ c <= 70 THEN c - 55
  ELSE 16

\* value of a base64 character, 64 for any other character
Base64Value(c) ==
  IF c >= 65 /\ c <= 90 THEN c - 65
  ELSE IF c >= 97 /\ c <= 122 THEN c - 71
  ELSE IF c >= 48 /\ c <= 57 THEN c + 4
  ELSE IF c = 43 THEN 62
  ELSE IF c = 47 THEN 63
  ELSE 64

\* t is padded base64
IsBase64(t) ==
  /\ Len(t) % 4 = 0
  /\ \A k \in 1..Len(t) :
       \/ Base64Value(t[k]) < 64
       \/ t[k] = 61 /\ k > Len(t) - 2 /\ (k = Len(t) \/ t[Len(t)] = 61)

\* atob(t): four characters become three bytes, less the padding
atob(t) ==
  LET n == Len(t)
      pad == IF n = 0 THEN 0
             ELSE IF t[n - 1] = 61 THEN 2
             ELSE IF t[n] = 61 THEN 1 ELSE 0
      val(k) == IF t[k] = 61 THEN 0 ELSE Base64Value(t[k])
  IN  [i \in 1..(3 * (n \div 4) - pad) |->
         LET g == (i - 1) \div 3
             v1 == val(4 * g + 1)
             v2 == val(4 * g + 2)
             v3 == val(4 * g + 3)
             v4 == val(4 * g + 4)
         IN  CASE (i - 1) % 3 = 0 -> v1 * 4 + v2 \div 16
               [] (i - 1) % 3 = 1 -> (v2 % 16) * 16 + v3 \div 4
               [] OTHER -> (v3 % 4) * 64 + v4]

\* the character a two-character JSON escape stands for, 0 if there is none
JSONUnescape(c) ==
  IF c \in {34, 92, 47} THEN c
  ELSE IF c = 110 THEN 10
  ELSE IF c = 114 THEN 13
  ELSE IF c = 116 THEN 9
  ELSE IF c = 98 THEN 8
  ELSE IF c = 102 THEN 12
  ELSE 0

RECURSIVE ReadJSONChars(_, _, _)
\* the characters of a JSON string literal from position i (behind the
\* opening quote) up to the closing quote
ReadJSONChars(j, i, acc) ==
  IF i > Len(j) THEN Failure
  ELSE IF j[i] = 34 THEN [ok |-> TRUE, val |-> acc, next |-> i + 1]
  ELSE IF j[i] < 32 THEN Failure
  ELSE IF j[i] # 92 THEN ReadJSONChars(j, i + 1, Append(acc, j[i]))
  ELSE IF i + 1 > Len(j) THEN Failure
  ELSE IF j[i + 1] = 117
    THEN IF i + 5 > Len(j) \/ \E d \in 2..5 : HexValue(j[i + d]) = 16 THEN Failure
         ELSE ReadJSONChars(j, i + 6,
                Append(acc, HexValue(j[i + 2]) * 4096 + HexValue(j[i + 3]) * 256
                            + HexValue(j[i + 4]) * 16 + HexValue(j[i + 5])))
  ELSE IF JSONUnescape(j[i + 1]) = 0 THEN Failure
  ELSE ReadJSONChars(j, i + 2, Append(acc, JSONUnescape(j[i + 1])))

\* JSON.parse of the string literal that starts at position i
ReadJSONString(j, i) ==
  IF i <= Len(j) /\ j[i] = 34 THEN ReadJSONChars(j, i + 1, <<>>) ELSE Failure

RECURSIVE ReadJSONMembers(_, _, _)
\* the "key":"value" members from position i up to the closing brace, as a
\* set of <<key, value>> pairs
ReadJSONMembers(j, i, acc) ==
  LET key == ReadJSONString(j, i) IN
  IF ~key.ok THEN Failure
  ELSE IF ~HasAt(j, key.next, <<58>>) THEN Failure
  ELSE LET value == ReadJSONString(j, key.next + 1) IN
       IF ~value.ok THEN Failure
       ELSE IF HasAt(j, value.next, <<125>>)
         THEN [ok |-> TRUE, val |-> acc \cup {<<key.val, value.val>>},
               next |-> value.next + 1]
       ELSE IF HasAt(j, value.next, <<44>>)
         THEN ReadJSONMembers(j, value.next + 1, acc \cup {<<key.val, value.val>>})
       ELSE Failure

\* JSON.parse of an object of string members that starts at position i
ReadJSONStringMap(j, i) ==
  IF HasAt(j, i, <<123, 125>>) THEN [ok |-> TRUE, val |-> {}, next |-> i + 2]
  ELSE IF HasAt(j, i, <<123>>) THEN ReadJSONMembers(j, i + 1, {})
  ELSE Failure

\* JSON.parse of a serialised config, reduced to code, mermaid.theme and
\* mermaid.themeVariables
ParseConfigJSON(j) ==
  IF ~HasAt(j, 1, ConfigJSON.codeKey) THEN Failure
  ELSE LET code == ReadJSONString(j, Len(ConfigJSON.codeKey) + 1) IN
  IF ~code.ok THEN Failure
  ELSE IF ~HasAt(j, code.next, ConfigJSON.themeKey) THEN Failure
  ELSE LET theme == ReadJSONString(j, code.next + Len(ConfigJSON.themeKey)) IN
  IF ~theme.ok THEN Failure
  ELSE IF ~HasAt(j, theme.next, ConfigJSON.themeVariablesKey)
    THEN [ok |-> TRUE, rawText |-> code.val, theme |-> theme.val,
          themeVariables |-> {}]
  ELSE LET tv == ReadJSONStringMap(j, theme.next + Len(ConfigJSON.themeVariablesKey)) IN
  IF ~tv.ok THEN Failure
  ELSE [ok |-> TRUE, rawText |-> code.val, theme |-> theme.val,
        themeVariables |-> tv.val]

\* s holds %XX at position i
PercentAt(s, i) ==
  /\ i + 2 <= Len(s)
  /\ s[i] = 37
  /\ HexValue(s[i + 1]) < 16
  /\ HexValue(s[i + 2]) < 16

\* the byte %XX at position i stands for
ByteAt(s, i) == HexValue(s[i + 1]) * 16 + HexValue(s[i + 2])

\* s holds the continuation byte %XX (10xxxxxx) at position i
ContinuationAt(s, i) == PercentAt(s, i) /\ ByteAt(s, i) \div 64 = 2

RECURSIVE DecodeURIFrom(_, _, _)
DecodeURIFrom(s, i, acc) ==
  IF i > Len(s) THEN [ok |-> TRUE, val |-> acc]
  ELSE IF s[i] # 37 THEN DecodeURIFrom(s, i + 1, Append(acc, s[i]))
  ELSE IF ~PercentAt(s, i) THEN Failure
  ELSE LET b == ByteAt(s, i) IN
  IF b < 128 THEN DecodeURIFrom(s, i + 3, Append(acc, b))
  ELSE IF b \div 32 = 6 /\ ContinuationAt(s, i + 3)
    THEN DecodeURIFrom(s, i + 6,
           Append(acc, (b % 32) * 64 + (ByteAt(s, i + 3) % 64)))
  ELSE IF b \div 16 = 14 /\ ContinuationAt(s, i + 3) /\ ContinuationAt(s, i + 6)
    THEN DecodeURIFrom(s, i + 9,
           Append(acc, (b % 16) * 4096 + (ByteAt(s, i + 3) % 64) * 64
                       + (ByteAt(s, i + 6) % 64)))
  ELSE IF /\ b \div 8 = 30 /\ ContinuationAt(s, i + 3)
          /\ ContinuationAt(s, i + 6) /\ ContinuationAt(s, i + 9)
    THEN LET cp == (b % 8) * 262144 + (ByteAt(s, i + 3) % 64) * 4096
                   + (ByteAt(s, i + 6) % 64) * 64 + (ByteAt(s, i + 9) % 64)
         IN  DecodeURIFrom(s, i + 12,
               acc \o <<55296 + (cp - 65536) \div 1024, 56320 + (cp % 1024)>>)
  ELSE Failure

\* decodeURIComponent(s)
decodeURIComponent(s) == DecodeURIFrom(s, 1, <<>>)

\* position of the first '#' of url, 0 if there is none
HashPosition(url) ==
  IF \E i \in 1..Len(url) : url[i] = 35
  THEN CHOOSE i \in 1..Len(url) : url[i] = 35 /\ \A k \in 1..(i - 1) : url[k] # 35
  ELSE 0

\* the fragment of url: what follows the first '#'
Fragment(url) == SubSeq(url, HashPosition(url) + 1, Len(url))

\* the string pako:
PakoPrefix == <<112, 97, 107, 111, 58>>

\* url was built on the structured path: its fragment starts with pako:
IsStructuredLink(url) == HashPosition(url) > 0 /\ HasAt(Fragment(url), 1, PakoPrefix)

\* the token of a structured link
TokenOf(url) == SubSeq(Fragment(url), Len(PakoPrefix) + 1, Len(Fragment(url)))

\* decode a share link back into a diagram: a structured token by
\* JSON.parse(atob(token)); a fallback payload by decodeURIComponent, which
\* carries the text only (theme dark, no theme variables)
DecodeShareLink(url) ==
  IF HashPosition(url) = 0 THEN Failure
  ELSE IF IsStructuredLink(url)
    THEN IF IsBase64(TokenOf(url)) THEN ParseConfigJSON(atob(TokenOf(url)))
         ELSE Failure
  ELSE LET text == decodeURIComponent(Fragment(url)) IN
       IF ~text.ok THEN Failure
       ELSE [ok |-> TRUE, rawText |-> text.val, theme |-> Themes.dark,
             themeVariables |-> {}]

\* the token of an export URL: between /img/ and ?format=
ExportTokenOf(url) ==
  LET start == Len(liveEditorURL) + Len(UrlPieces.img) + 1
      q == CHOOSE i \in start..(Len(url) + 1) :
             /\ i = Len(url) + 1 \/ url[i] = 63
             /\ \A k \in start..(i - 1) : url[k] # 63
  IN  SubSeq(url, start, q - 1)

\* decode an export URL back into a diagram
DecodeExportURL(url) ==
  IF HasAt(url, 1, liveEditorURL \o UrlPieces.img) /\ IsBase64(ExportTokenOf(url))
  THEN ParseConfigJSON(atob(ExportTokenOf(url)))
  ELSE Failure

(***************************************************************************)
(* The codec applied to drawn diagrams                                     *)
(***************************************************************************)
\* theme-variable mappings of the drawn diagrams: none, one known colour
\* (#fff), all six known colours, one variable the encoder does not know
ThemeVariableChoices ==
  { <<>>,
    [primaryColor |-> <<35, 102, 102, 102>>],
    [primaryColor |-> <<35, 49, 49, 49>>, primaryTextColor |-> <<35, 50, 50, 50>>,
     primaryBorderColor |-> <<35, 51, 51, 51>>, lineColor |-> <<35, 52, 52, 52>>,
     secondaryColor |-> <<35, 53, 53, 53>>, tertiaryColor |-> <<35, 54, 54, 54>>],
    [fontSize |-> <<57, 112, 120>>] }

DiagramSpecs ==
  [rawText : RawTexts, theme : {Themes.dark, Themes.light},
   themeVariables : ThemeVariableChoices]

\* the options object a caller builds from a diagram for
\* createLiveEditorLink, which reads theme and the colour names from it
OptionsOf(d) ==
  [k \in {"theme"} \cup DOMAIN d.themeVariables |->
     IF k = "theme" THEN d.theme ELSE d.themeVariables[k]]

\* the editorConfig a caller builds for createInteractiveEditorLink
EditorConfigOf(d) == [theme |-> d.theme, themeVariables |-> d.themeVariables]

\* a theme-variable mapping as the set of its <<name, value>> pairs
PairsOf(tv) == {<<KeyChars[k], tv[k]>> : k \in DOMAIN tv}

CodecInit ==
  /\ PanelInit
  /\ PageInit
  /\ diagramSpec \in DiagramSpecs
  /\ result = NoResult

CreateLiveEditorLink ==
  /\ result' = [op |-> "createLiveEditorLink",
                out |-> createLiveEditorLink(diagramSpec.rawText, OptionsOf(diagramSpec))]
  /\ UNCHANGED <<panelVars, diagramSpec, pageVars>>

CreateInteractiveEditorLink ==
  /\ result' = [op |-> "createInteractiveEditorLink",
                out |-> createInteractiveEditorLink(diagramSpec.rawText,
                                                    EditorConfigOf(diagramSpec))]
  /\ UNCHANGED <<panelVars, diagramSpec, pageVars>>

CreateDownloadURLs ==
  /\ result' = [op |-> "createDownloadURLs",
                out |-> createDownloadURLs(diagramSpec.rawText)]
  /\ UNCHANGED <<panelVars, diagramSpec, pageVars>>

NextCodec ==
  \/ CreateLiveEditorLink
  \/ CreateInteractiveEditorLink
  \/ CreateDownloadURLs

\* the codec operations applied to every drawn diagram
SpecCodec == CodecInit /\ [][NextCodec]_vars

(***************************************************************************)
(* Properties of the codec                                                 *)
(***************************************************************************)
\* C8: round trip.  Decoding the share link createLiveEditorLink returns
\* for a diagram yields the diagram's rawText, theme and themeVariables.
RoundTrip ==
  result.op = "createLiveEditorLink"
  => /\ result.out.kind = "url"
     /\ LET d == DecodeShareLink(result.out.url) IN
        /\ d.ok
        /\ d.rawText = diagramSpec.rawText
        /\ d.theme = diagramSpec.theme
        /\ d.themeVariables = PairsOf(diagramSpec.themeVariables)

CarriesRawText(url, text) ==
  \/ DecodeShareLink(url).ok /\ DecodeShareLink(url).rawText = text
  \/ DecodeExportURL(url).ok /\ DecodeExportURL(url).rawText = text

\* the structured encoding step (btoa) of the operation that ran failed
StructuredStepFailed ==
  \/ /\ result.op = "createLiveEditorLink"
     /\ BtoaThrows(LiveEditorConfigJSON(diagramSpec.rawText, OptionsOf(diagramSpec)))
  \/ /\ result.op = "createInteractiveEditorLink"
     /\ BtoaThrows(InteractiveConfigJSON(diagramSpec.rawText, EditorConfigOf(diagramSpec)))
  \/ /\ result.op = "createDownloadURLs"
     /\ BtoaThrows(DownloadConfigJSON(diagramSpec.rawText))

\* C10: encode fallback preserves content.  When the structured encoding
\* step of a link-building operation fails, the value it returns still
\* carries the diagram's raw text.
FallbackPreservesContent ==
  StructuredStepFailed
  => \/ /\ result.out.kind = "url"
        /\ CarriesRawText(result.out.url, diagramSpec.rawText)
     \/ /\ result.out.kind = "urls"
        /\ DOMAIN result.out.urls # {}
        /\ \A f \in DOMAIN result.out.urls :
             CarriesRawText(result.out.urls[f], diagramSpec.rawText)

\* the export formats of createDownloadURLs
ExportFormats == {"svg", "png", "pdf", "jpeg"}

\* C11: export URLs share one token.  When createDownloadURLs encodes a
\* text successfully, its svg, png, pdf and jpeg URLs are one base
\* (https://mermaid.live/img/ and one token without '?') followed by
\* ?format= and the name of the format: they differ in that name only.
ExportURLsShareToken ==
  (result.op = "createDownloadURLs" /\ DOMAIN result.out.urls # {})
  => /\ DOMAIN result.out.urls = ExportFormats
     /\ \E n \in 0..Len(result.out.urls["svg"]) :
          LET baseURL == SubSeq(result.out.urls["svg"], 1, n)
              prefix == liveEditorURL \o UrlPieces.img
          IN  /\ n >= Len(prefix)
              /\ SubSeq(baseURL, 1, Len(prefix)) = prefix
              /\ \A k \in (Len(prefix) + 1)..n : baseURL[k] # 63
              /\ \A f \in ExportFormats :
                   result.out.urls[f] = baseURL \o UrlPieces.formatQuery \o FormatChars[f]

\* C11 witness: the text A" (an A followed by a quote) was encoded
\* and four URLs were returned, the svg one ending in ?format=svg
ExportURLsShareTokenWitness ==
  /\ result.op = "createDownloadURLs"
  /\ diagramSpec.rawText = <<65, 34>>
  /\ DOMAIN result.out.urls = ExportFormats
  /\ result.out.urls["svg"] # result.out.urls["jpeg"]

\* C12: export uses the share-link encoding.  The token of every export
\* URL of a diagram is the token of the share link createLiveEditorLink
\* builds for the same text, theme and theme variables.
ExportUsesShareLinkEncoding ==
  (result.op = "createDownloadURLs" /\ DOMAIN result.out.urls # {})
  => LET share == createLiveEditorLink(diagramSpec.rawText, OptionsOf(diagramSpec)) IN
     /\ share.kind = "url"
     /\ IsStructuredLink(share.url)
     /\ \A f \in DOMAIN result.out.urls :
          ExportTokenOf(result.out.urls[f]) = TokenOf(share.url)

(***************************************************************************)
(* The parser: parseMermaidDiagram                                         *)
(***************************************************************************)
\* the character classes of the regular expressions of parseMermaidDiagram
CharClass ==
  [
   \* \w of a regular expression without the u flag: [A-Za-z0-9_]
   word |->
     (48..57) \cup (65..90) \cup {95} \cup (97..122),
   \* [-=.] of the arrow expression
   shaft |->
     {45, 61, 46},
   \* > of the arrow expression
   head |->
     {62},
   \* [^\]] of the node expression: every code unit but ']'
   notCloseBracket |->
     (0..65535) \ {93}
  ]

\* the white space and line terminators of String.prototype.trim and \s
WhiteSpace ==
  {9, 10, 11, 12, 13, 32, 160, 5760, 8232, 8233, 8239, 8287, 12288, 65279}
  \cup 8192..8202

\* s.startsWith(literal)
startsWith(s, literal) ==
  Len(literal) <= Len(s) /\ SubSeq(s, 1, Len(literal)) = literal

\* s.includes(literal)
includes(s, literal) ==
  \E i \in 1..(Len(s) - Len(literal) + 1) :
    SubSeq(s, i, i + Len(literal) - 1) = literal

RECURSIVE SplitFrom(_, _)
\* the pieces of s between line feeds, from position i on
SplitFrom(s, i) ==
  IF \E k \in i..Len(s) : s[k] = 10
  THEN LET k == CHOOSE k \in i..Len(s) : s[k] = 10 /\ \A j \in i..(k - 1) : s[j] # 10
       IN  <<SubSeq(s, i, k - 1)>> \o SplitFrom(s, k + 1)
  ELSE <<SubSeq(s, i, Len(s))>>

\* mermaidCode.split('\n')
split(s) == SplitFrom(s, 1)

\* line.trim()
trim(s) ==
  LET kept == {i \in 1..Len(s) : s[i] \notin WhiteSpace} IN
  IF kept = {} THEN <<>>
  ELSE SubSeq(s, CHOOSE i \in kept : \A k \in kept : i <= k,
                 CHOOSE i \in kept : \A k \in kept : i >= k)

\* a greedy repetition: the last position of the longest run of characters
\* of class that starts at position i of s (i - 1 when the run is empty)
RunEnd(s, i, class) ==
  CHOOSE e \in (i - 1)..Len(s) :
    /\ \A k \in i..e : s[k] \in class
    /\ e = Len(s) \/ s[e + 1] \notin class

\* the identifiers that are never registered as simple nodes:
\* graph, TD, LR, TB, RL
DirectionWords ==
  {<<103, 114, 97, 112, 104>>, <<84, 68>>, <<76, 82>>, <<84, 66>>, <<82, 76>>}

\* the condition of the continue statement: an empty line, or one that
\* starts with %, //, graph or flowchart
SkippedLine(line) ==
  \/ line = <<>>
  \/ startsWith(line, <<37>>)
  \/ startsWith(line, <<47, 47>>)
  \/ startsWith(line, <<103, 114, 97, 112, 104>>)
  \/ startsWith(line, <<102, 108, 111, 119, 99, 104, 97, 114, 116>>)

\* the guard of the relationship extraction: the line includes -->, ---
\* or -.-
HasEdgeMarker(line) ==
  \/ includes(line, <<45, 45, 62>>)
  \/ includes(line, <<45, 45, 45>>)
  \/ includes(line, <<45, 46, 45>>)

\* /(\w+)\s*[-=.]*>+\s*(\w+)/ tried at position i of line.  The classes
\* of adjacent repetitions are disjoint, so backtracking never finds a
\* match the greedy scan misses.
ArrowMatchAt(line, i) ==
  LET e == RunEnd(line, i, CharClass.word)
      a == RunEnd(line, RunEnd(line, e + 1, WhiteSpace) + 1, CharClass.shaft)
      h == RunEnd(line, a + 1, CharClass.head)
      t == RunEnd(line, h + 1, WhiteSpace) + 1
      z == RunEnd(line, t, CharClass.word)
  IN  IF e >= i /\ h > a /\ z >= t
      THEN [ok |-> TRUE, from |-> SubSeq(line, i, e), to |-> SubSeq(line, t, z)]
      ELSE [ok |-> FALSE]

\* variant: the last match of the line instead of the first
ArrowMatchRightmost(line) ==
  IF \E i \in 1..Len(line) : ArrowMatchAt(line, i).ok
  THEN ArrowMatchAt(line, CHOOSE i \in 1..Len(line) :
                            /\ ArrowMatchAt(line, i).ok
                            /\ \A k \in (i + 1)..Len(line) : ~ArrowMatchAt(line, k).ok)
  ELSE [ok |-> FALSE]

\* line.match(/(\w+)\s*[-=.]*>+\s*(\w+)/): the leftmost match, or null
ArrowMatch(line) ==
  IF \E i \in 1..Len(line) : ArrowMatchAt(line, i).ok
  THEN ArrowMatchAt(line, CHOOSE i \in 1..Len(line) :
                            /\ ArrowMatchAt(line, i).ok
                            /\ \A k \in 1..(i - 1) : ~ArrowMatchAt(line, k).ok)
  ELSE [ok |-> FALSE]

RECURSIVE NodeLabelsFrom(_, _)
\* the labels of line.matchAll(/(\w+)\[([^\]]+)\]/g) from position i on:
\* a word, '[', at least one character other than ']', then ']'
NodeLabelsFrom(line, i) ==
  IF i > Len(line) THEN <<>>
  ELSE LET e == RunEnd(line, i, CharClass.word)
           c == RunEnd(line, e + 2, CharClass.notCloseBracket) + 1
       IN  IF e >= i /\ e < Len(line) /\ line[e + 1] = 91 /\ c > e + 2 /\ c <= Len(line)
           THEN <<SubSeq(line, e + 2, c - 1)>> \o NodeLabelsFrom(line, c + 1)
           ELSE NodeLabelsFrom(line, i + 1)

RECURSIVE SimpleNodesFrom(_, _)
\* the identifiers of line.matchAll(/(\w+)\s*(?:\[|$)/g) from position i
\* on: a word followed, after optional white space, by '[' or the end
SimpleNodesFrom(line, i) ==
  IF i > Len(line) THEN <<>>
  ELSE LET e == RunEnd(line, i, CharClass.word)
           p == RunEnd(line, e + 1, WhiteSpace) + 1
       IN  IF e >= i /\ (p > Len(line) \/ line[p] = 91)
           THEN <<SubSeq(line, i, e)>> \o SimpleNodesFrom(line, p + 1)
           ELSE SimpleNodesFrom(line, i + 1)

RECURSIVE AddAll(_, _)
\* components.add(item) for each item: a Set keeps the first insertion
AddAll(components, items) ==
  IF items = <<>> THEN components
  ELSE AddAll(IF \E i \in 1..Len(components) : components[i] = Head(items)
              THEN components ELSE Append(components, Head(items)),
              Tail(items))

\* variant of the loop body: a relationship is kept only when both
\* endpoints are registered as components by the same line
ParseLineDeclaredOnly(line, acc) ==
  IF SkippedLine(line) THEN acc
  ELSE LET m == ArrowMatch(line)
           components ==
             AddAll(AddAll(acc.components, NodeLabelsFrom(line, 1)),
                    SelectSeq(SimpleNodesFrom(line, 1),
                              LAMBDA nodeId : nodeId \notin DirectionWords))
           declared(id) == \E i \in 1..Len(components) : components[i] = id
       IN  [components |-> components,
            relationships |->
              IF HasEdgeMarker(line) /\ m.ok /\ declared(m.from) /\ declared(m.to)
              THEN Append(acc.relationships,
                          [from |-> m.from, to |-> m.to, type |-> "connection"])
              ELSE acc.relationships]

\* the body of the loop over the lines, applied to a trimmed line
ParseLine(line, acc) ==
  IF SkippedLine(line) THEN acc
  ELSE LET m == ArrowMatch(line) IN
       [components |->
          AddAll(AddAll(acc.components, NodeLabelsFrom(line, 1)),
                 SelectSeq(SimpleNodesFrom(line, 1),
                           LAMBDA nodeId : nodeId \notin DirectionWords)),
        relationships |->
          IF HasEdgeMarker(line) /\ m.ok
          THEN Append(acc.relationships,
                      [from |-> m.from, to |-> m.to, type |-> "connection"])
          ELSE acc.relationships]

RECURSIVE ParseLines(_, _, _)
\* for (let line of lines), from line k on
ParseLines(lines, k, acc) ==
  IF k > Len(lines) THEN acc
  ELSE ParseLines(lines, k + 1, ParseLine(trim(lines[k]), acc))

\* the value parseMermaidDiagram returns
Parsed(acc) ==
  [kind |-> "parsed", components |-> acc.components,
   relationships |-> acc.relationships]

\* an argument that is not a string (undefined, null, a number), written
\* as the one-element sequence of the code -1
NotAString == <<-1>>

\* typeof v === 'string'
IsString(v) == \A i \in 1..Len(v) : v[i] >= 0

\* variant: a text whose brackets do not balance is rejected by raising
parseMermaidDiagramRejecting(mermaidCode) ==
  IF ~IsString(mermaidCode)
  THEN Parsed([components |-> <<>>, relationships |-> <<>>])
  ELSE IF Cardinality({i \in 1..Len(mermaidCode) : mermaidCode[i] = 91})
     # Cardinality({i \in 1..Len(mermaidCode) : mermaidCode[i] = 93})
  THEN Throws("Error")
  ELSE Parsed(ParseLines(split(mermaidCode), 1,
                         [components |-> <<>>, relationships |-> <<>>]))

\* parseMermaidDiagram(mermaidCode).  For a string no statement of the try
\* block raises; for any other argument mermaidCode.split raises a
\* TypeError and the catch block returns empty lists.
parseMermaidDiagram(mermaidCode) ==
  IF ~IsString(mermaidCode)
  THEN Parsed([components |-> <<>>, relationships |-> <<>>])
  ELSE Parsed(ParseLines(split(mermaidCode), 1,
                         [components |-> <<>>, relationships |-> <<>>]))

(***************************************************************************)
(* validateMermaidSyntax and enhanceMermaidCode                            *)
(***************************************************************************)
\* s.toLowerCase() for the letters of ASCII and Latin-1
toLowerCase(s) ==
  [i \in 1..Len(s) |->
     IF (s[i] >= 65 /\ s[i] <= 90) \/ (s[i] >= 192 /\ s[i] <= 222 /\ s[i] # 215)
     THEN s[i] + 32 ELSE s[i]]

\* validDiagramTypes, as written in the source: graph, flowchart,
\* sequenceDiagram, classDiagram, stateDiagram, erDiagram, gantt, pie,
\* gitgraph
validDiagramTypes ==
  {<<103, 114, 97, 112, 104>>,
   <<102, 108, 111, 119, 99, 104, 97, 114, 116>>,
   <<115, 101, 113, 117, 101, 110, 99, 101, 68, 105, 97, 103, 114, 97,
    109>>,
   <<99, 108, 97, 115, 115, 68, 105, 97, 103, 114, 97, 109>>,
   <<115, 116, 97, 116, 101, 68, 105, 97, 103, 114, 97, 109>>,
   <<101, 114, 68, 105, 97, 103, 114, 97, 109>>,
   <<103, 97, 110, 116, 116>>,
   <<112, 105, 101>>,
   <<103, 105, 116, 103, 114, 97, 112, 104>>}

\* validateMermaidSyntax(mermaidCode): false for a non-string or an empty
\* string; else whether the lower-cased first line of the trimmed text
\* starts with one of validDiagramTypes.  The loop that counts brackets
\* continues in either case and changes nothing.
validateMermaidSyntax(mermaidCode) ==
  IF ~IsString(mermaidCode) \/ mermaidCode = <<>> THEN FALSE
  ELSE \E type \in validDiagramTypes :
         startsWith(toLowerCase(split(trim(mermaidCode))[1]), type)

\* providers handed to enhanceMermaidCode; oracle has no entry in
\* providerStyles
Providers == {"aws", "azure", "gcp", "oracle"}

\* providerStyles[provider] || providerStyles.aws, as <<primaryColor,
\* secondaryColor, accentColor>>: #FF9900 #232F3E #4CAF50 for aws,
\* #0078D4 #005A9E #40E0D0 for azure, #4285F4 #34A853 #FBBC04 for gcp
providerStyle(provider) ==
  CASE provider = "azure" -> <<<<35, 48, 48, 55, 56, 68, 52>>,
          <<35, 48, 48, 53, 65, 57, 69>>,
          <<35, 52, 48, 69, 48, 68, 48>>>>
    [] provider = "gcp" -> <<<<35, 52, 50, 56, 53, 70, 52>>,
          <<35, 51, 52, 65, 56, 53, 51>>,
          <<35, 70, 66, 66, 67, 48, 52>>>>
    [] OTHER -> <<<<35, 70, 70, 57, 57, 48, 48>>,
          <<35, 50, 51, 50, 70, 51, 69>>,
          <<35, 52, 67, 65, 70, 53, 48>>>>

\* the text appended by enhanceMermaidCode: an empty line and three
\* indented classDef lines (primary, secondary, accent)
classDefLines(style) ==
  <<10, 10, 32, 32, 32, 32, 99, 108, 97, 115, 115, 68, 101, 102, 32, 112,
  114, 105, 109, 97, 114, 121, 32, 102, 105, 108, 108, 58>>
  \o style[1] \o
  <<44, 115, 116, 114, 111, 107, 101, 58, 35, 102, 102, 102, 44, 115, 116,
  114, 111, 107, 101, 45, 119, 105, 100, 116, 104, 58, 50, 112, 120, 44,
  99, 111, 108, 111, 114, 58, 35, 102, 102, 102, 10, 32, 32, 32, 32, 99,
  108, 97, 115, 115, 68, 101, 102, 32, 115, 101, 99, 111, 110, 100, 97,
  114, 121, 32, 102, 105, 108, 108, 58>>
  \o style[2] \o
  <<44, 115, 116, 114, 111, 107, 101, 58, 35, 102, 102, 102, 44, 115, 116,
  114, 111, 107, 101, 45, 119, 105, 100, 116, 104, 58, 49, 112, 120, 44,
  99, 111, 108, 111, 114, 58, 35, 102, 102, 102, 10, 32, 32, 32, 32, 99,
  108, 97, 115, 115, 68, 101, 102, 32, 97, 99, 99, 101, 110, 116, 32, 102,
  105, 108, 108, 58>>
  \o style[3] \o
  <<44, 115, 116, 114, 111, 107, 101, 58, 35, 102, 102, 102, 44, 115, 116,
  114, 111, 107, 101, 45, 119, 105, 100, 116, 104, 58, 50, 112, 120, 44,
  99, 111, 108, 111, 114, 58, 35, 48, 48, 48>>

\* variant: the classDef lines are appended without looking for earlier ones
enhanceMermaidCodeAlways(mermaidCode, provider) ==
  IF ~validateMermaidSyntax(mermaidCode) THEN mermaidCode
  ELSE mermaidCode \o classDefLines(providerStyle(provider))

\* enhanceMermaidCode(mermaidCode, provider): the text itself when it does
\* not validate or already includes %%{ or classDef
enhanceMermaidCode(mermaidCode, provider) ==
  IF ~validateMermaidSyntax(mermaidCode) THEN mermaidCode
  ELSE IF ~includes(mermaidCode, <<37, 37, 123>>)
          /\ ~includes(mermaidCode, <<99, 108, 97, 115, 115, 68, 101, 102>>)
       THEN mermaidCode \o classDefLines(providerStyle(provider))
       ELSE mermaidCode

(***************************************************************************)
(* The parser applied to drawn texts                                       *)
(***************************************************************************)

\* the header line graph TD and its line feed
HeaderTD ==
  <<103, 114, 97, 112, 104, 32, 84, 68, 10>>

\* node identifiers and labels of the drawn labelled edges
EdgeEnds ==
  [
   \* A, web1; B; Web Server, API; Database
   fromIds |->
     {<<65>>, <<119, 101, 98, 49>>},
   toIds |->
     {<<66>>},
   fromLabels |->
     {<<87, 101, 98, 32, 83, 101, 114, 118, 101, 114>>, <<65, 80, 73>>},
   toLabels |->
     {<<68, 97, 116, 97, 98, 97, 115, 101>>}
  ]

\* the line X[L1]-->Y[L2]
LabelledEdge(X, L1, Y, L2) ==
  X \o <<91>> \o L1 \o <<93, 45, 45, 62>> \o Y \o <<91>> \o L2 \o <<93>>

\* diagrams whose only non-header line is X[L1]-->Y[L2]
LabelledEdgeTexts ==
  {h \o LabelledEdge(X, L1, Y, L2) :
     h \in {<<>>, HeaderTD}, X \in EdgeEnds.fromIds, L1 \in EdgeEnds.fromLabels,
     Y \in EdgeEnds.toIds, L2 \in EdgeEnds.toLabels}


\* directed-edge markers of the drawn edge lines: -->, -.->, ==>, ->
EdgeMarkers ==
  {<<45, 45, 62>>, <<45, 46, 45, 62>>, <<61, 61, 62>>, <<45, 62>>}

\* the line X <marker> Y
MarkerEdge(X, marker, Y) == X \o <<32>> \o marker \o <<32>> \o Y

\* hand-written diagram texts (a line feed is written \n here)
SampleTexts ==
  {
   \* sequenceDiagram\nA->>B: hi   (a sequence diagram)
   <<115, 101, 113, 117, 101, 110, 99, 101, 68, 105, 97, 103, 114, 97,
   109, 10, 65, 45, 62, 62, 66, 58, 32, 104, 105>>,
   \* classDiagram\nclass A   (a class diagram)
   <<99, 108, 97, 115, 115, 68, 105, 97, 103, 114, 97, 109, 10, 99, 108,
   97, 115, 115, 32, 65>>,
   \* pie title Pets   (a pie chart)
   <<112, 105, 101, 32, 116, 105, 116, 108, 101, 32, 80, 101, 116, 115>>,
   \* graph TD\nA-->B\nclassDef x fill:#fff   (a text that already has a classDef line)
   <<103, 114, 97, 112, 104, 32, 84, 68, 10, 65, 45, 45, 62, 66, 10, 99,
   108, 97, 115, 115, 68, 101, 102, 32, 120, 32, 102, 105, 108, 108, 58,
   35, 102, 102, 102>>,
   \* %%{init: {}}%%\ngraph TD\nA-->B   (a text that starts with a directive)
   <<37, 37, 123, 105, 110, 105, 116, 58, 32, 123, 125, 125, 37, 37, 10,
   103, 114, 97, 112, 104, 32, 84, 68, 10, 65, 45, 45, 62, 66>>,
   \* graph TD\nA[Web --> B   (a header and an unbalanced bracket)
   <<103, 114, 97, 112, 104, 32, 84, 68, 10, 65, 91, 87, 101, 98, 32,
   45, 45, 62, 32, 66>>,
   \*   Graph TD\nA-->B   (a header with leading spaces and a capital)
   <<32, 32, 71, 114, 97, 112, 104, 32, 84, 68, 10, 65, 45, 45, 62, 66>>,
   \* graph TD\nA --> B   (a header and one edge between bare identifiers)
   <<103, 114, 97, 112, 104, 32, 84, 68, 10, 65, 32, 45, 45, 62, 32,
   66>>,
   \* flowchart LR\nA --> B\nB --> C   (two edge lines under a flowchart header)
   <<102, 108, 111, 119, 99, 104, 97, 114, 116, 32, 76, 82, 10, 65, 32,
   45, 45, 62, 32, 66, 10, 66, 32, 45, 45, 62, 32, 67>>,
   \* A-->B   (an edge without header or spaces)
   <<65, 45, 45, 62, 66>>,
   \* A --> B --> C   (a chain of two arrows on one line)
   <<65, 32, 45, 45, 62, 32, 66, 32, 45, 45, 62, 32, 67>>,
   \* A ==> B   (a thick arrow)
   <<65, 32, 61, 61, 62, 32, 66>>,
   \* A -.-> B   (a dotted arrow)
   <<65, 32, 45, 46, 45, 62, 32, 66>>,
   \* A --- B   (an open link, no arrow head)
   <<65, 32, 45, 45, 45, 32, 66>>,
   \* graphql --> db   (an identifier that starts with the word graph)
   <<103, 114, 97, 112, 104, 113, 108, 32, 45, 45, 62, 32, 100, 98>>,
   \* %% note\n// note\n\n  web1 --> db_1     (comments, an empty line, an indented edge)
   <<37, 37, 32, 110, 111, 116, 101, 10, 47, 47, 32, 110, 111, 116, 101,
   10, 10, 32, 32, 119, 101, 98, 49, 32, 45, 45, 62, 32, 100, 98, 95,
   49, 32, 32>>,
   \* A[Web --> B   (an unbalanced opening bracket)
   <<65, 91, 87, 101, 98, 32, 45, 45, 62, 32, 66>>,
   \* x]]--> [y   (unbalanced closing brackets)
   <<120, 93, 93, 45, 45, 62, 32, 91, 121>>,
   \* graph TD\n  A[Web Server] --> B[Database]   (labelled nodes, spaces around the arrow)
   <<103, 114, 97, 112, 104, 32, 84, 68, 10, 32, 32, 65, 91, 87, 101,
   98, 32, 83, 101, 114, 118, 101, 114, 93, 32, 45, 45, 62, 32, 66, 91,
   68, 97, 116, 97, 98, 97, 115, 101, 93>>,
   \* A -->|network| B   (an edge with a link text)
   <<65, 32, 45, 45, 62, 124, 110, 101, 116, 119, 111, 114, 107, 124,
   32, 66>>,
   \* network --> data   (identifiers that are connection-kind keywords)
   <<110, 101, 116, 119, 111, 114, 107, 32, 45, 45, 62, 32, 100, 97,
   116, 97>>,
   \* lb -. traffic .-> web   (a dotted arrow with text)
   <<108, 98, 32, 45, 46, 32, 116, 114, 97, 102, 102, 105, 99, 32, 46,
   45, 62, 32, 119, 101, 98>>,
   \* graph TD\nLR\nTD   (direction words on lines of their own)
   <<103, 114, 97, 112, 104, 32, 84, 68, 10, 76, 82, 10, 84, 68>>,
   \* A[Web Server]   (a single labelled node)
   <<65, 91, 87, 101, 98, 32, 83, 101, 114, 118, 101, 114, 93>>,
   \* A[]-->B   (an empty label)
   <<65, 91, 93, 45, 45, 62, 66>>,
   \* A --> B\nA --> B   (the same edge twice)
   <<65, 32, 45, 45, 62, 32, 66, 10, 65, 32, 45, 45, 62, 32, 66>>,
   \* A[API] --> B\nC[API]   (two nodes with one label)
   <<65, 91, 65, 80, 73, 93, 32, 45, 45, 62, 32, 66, 10, 67, 91, 65, 80,
   73, 93>> }

\* the texts handed to the parser: every short string over TextAlphabet
\* (garbage, line feeds, the empty string), the labelled edges, one edge
\* line per marker, the samples
ParserTexts ==
  RawTexts \cup LabelledEdgeTexts \cup SampleTexts
  \cup {MarkerEdge(X, marker, Y) :
          X \in EdgeEnds.fromIds, marker \in EdgeMarkers, Y \in EdgeEnds.toIds}
  \cup {NotAString}

ParserInit ==
  /\ PanelInit
  /\ PageInit
  /\ diagramSpec \in [rawText : ParserTexts, theme : {Themes.dark},
                       themeVariables : {<<>>}]
  /\ result = NoResult

ParseMermaidDiagram ==
  /\ result' = [op |-> "parseMermaidDiagram",
                out |-> parseMermaidDiagram(diagramSpec.rawText)]
  /\ UNCHANGED <<panelVars, diagramSpec, pageVars>>

ValidateMermaidSyntax ==
  /\ result' = [op |-> "validateMermaidSyntax",
                out |-> validateMermaidSyntax(diagramSpec.rawText)]
  /\ UNCHANGED <<panelVars, diagramSpec, pageVars>>

EnhanceMermaidCode(provider) ==
  /\ result' = [op |-> "enhanceMermaidCode", provider |-> provider,
                out |-> enhanceMermaidCode(diagramSpec.rawText, provider)]
  /\ UNCHANGED <<panelVars, diagramSpec, pageVars>>

NextParser ==
  \/ ParseMermaidDiagram
  \/ ValidateMermaidSyntax
  \/ \E provider \in Providers : EnhanceMermaidCode(provider)

\* the parser applied to every drawn text
SpecParser == ParserInit /\ [][NextParser]_vars

(***************************************************************************)
(* Properties of the parser                                                *)
(***************************************************************************)
\* the elements of a sequence
Elements(seq) == {seq[i] : i \in 1..Len(seq)}

\* C13: parser totality.  For every input string parseMermaidDiagram
\* returns (it does not raise) an object with a collection of distinct
\* components and a sequence of connections (the relationships list), each
\* with a non-empty from and to.
ParserTotal ==
  result.op = "parseMermaidDiagram"
  => /\ result.out.kind = "parsed"
     /\ DOMAIN result.out = {"kind", "components", "relationships"}
     /\ Cardinality(Elements(result.out.components)) = Len(result.out.components)
     /\ \A i \in 1..Len(result.out.relationships) :
          /\ result.out.relationships[i].from # <<>>
          /\ result.out.relationships[i].to # <<>>

\* C13 witness: the line A[Web --> B, whose bracket is never closed, was
\* parsed: components A and B, one connection from Web to B
ParserTotalWitness ==
  /\ result.op = "parseMermaidDiagram"
  /\ diagramSpec.rawText = <<65, 91, 87, 101, 98, 32, 45, 45, 62, 32, 66>>
  /\ result.out.kind = "parsed"
  /\ result.out.components = <<<<65>>, <<66>>>>
  /\ Len(result.out.relationships) = 1
  /\ result.out.relationships[1].from = <<87, 101, 98>>

\* C14: labelled nodes are components by label only.  For a diagram whose
\* only non-header line is X[L1]-->Y[L2] the parsed components are exactly
\* L1 and L2.
LabelledNodesByLabelOnly ==
  \A h \in {<<>>, HeaderTD}, X \in EdgeEnds.fromIds, L1 \in EdgeEnds.fromLabels,
     Y \in EdgeEnds.toIds, L2 \in EdgeEnds.toLabels :
    (/\ result.op = "parseMermaidDiagram"
     /\ diagramSpec.rawText = h \o LabelledEdge(X, L1, Y, L2))
    => Elements(result.out.components) = {L1, L2}

\* C15: edge between labelled nodes.  For a diagram whose only non-header
\* line is X[L1]-->Y[L2] the parser yields exactly one connection, from X
\* to Y.
EdgeBetweenLabelledNodes ==
  \A h \in {<<>>, HeaderTD}, X \in EdgeEnds.fromIds, L1 \in EdgeEnds.fromLabels,
     Y \in EdgeEnds.toIds, L2 \in EdgeEnds.toLabels :
    (/\ result.op = "parseMermaidDiagram"
     /\ diagramSpec.rawText = h \o LabelledEdge(X, L1, Y, L2))
    => /\ Len(result.out.relationships) = 1
       /\ result.out.relationships[1].from = X
       /\ result.out.relationships[1].to = Y

\* the words network, data, traffic
KindKeywords ==
  {<<110, 101, 116, 119, 111, 114, 107>>, <<100, 97, 116, 97>>,
   <<116, 114, 97, 102, 102, 105, 99>>}

\* C16: connection kind.  Every connection the parser returns has a kind
\* among network, data, traffic, other, and every connection of a text
\* that contains none of the keywords has kind other.
ConnectionKind ==
  result.op = "parseMermaidDiagram"
  => \A i \in 1..Len(result.out.relationships) :
       /\ result.out.relationships[i].type \in {"network", "data", "traffic", "other"}
       /\ (\A w \in KindKeywords : ~includes(diagramSpec.rawText, w))
          => result.out.relationships[i].type = "other"

\* the edge lines of a text: the trimmed lines that are not skipped, carry
\* an edge marker and match the arrow expression
EdgeLines(mermaidCode) ==
  SelectSeq([k \in 1..Len(split(mermaidCode)) |-> trim(split(mermaidCode)[k])],
            LAMBDA line : ~SkippedLine(line) /\ HasEdgeMarker(line)
                          /\ ArrowMatch(line).ok)

\* C17: dangling references are retained.  The connections of the parser's
\* output are the connections of the edge lines, one per line and in the
\* order of the lines, whether or not their from and to are components.
DanglingRetained ==
  result.op = "parseMermaidDiagram"
  => LET edges == EdgeLines(diagramSpec.rawText) IN
     /\ Len(result.out.relationships) = Len(edges)
     /\ \A i \in 1..Len(edges) :
          /\ result.out.relationships[i].from = ArrowMatch(edges[i]).from
          /\ result.out.relationships[i].to = ArrowMatch(edges[i]).to

\* C17 witness: A --> B was parsed; A is not a component (only B, at the
\* end of the line, is) and the connection from A to B is in the output
DanglingRetainedWitness ==
  /\ result.op = "parseMermaidDiagram"
  /\ diagramSpec.rawText = <<65, 45, 45, 62, 66>>
  /\ <<65>> \notin Elements(result.out.components)
  /\ result.out.relationships = <<[from |-> <<65>>, to |-> <<66>>, type |-> "connection"]>>

(***************************************************************************)
(* What the panel displays                                                 *)
(***************************************************************************)
\* the "Components and Connections" grid is rendered: the panel is
\* expanded and architectureDiagram.components is a non-empty list
ListsSectionShown ==
  /\ isExpanded
  /\ architectureDiagram # NoDiagram
  /\ architectureDiagram.components # NoList

\* the entries of the Components card (none when the card is not rendered)
DisplayedComponents ==
  IF ListsSectionShown THEN architectureDiagram.components ELSE <<>>

\* the entries of the Data Flow card, which is nested in the grid
DisplayedConnections ==
  IF ListsSectionShown /\ architectureDiagram.connections # NoList
  THEN architectureDiagram.connections ELSE <<>>

\* the "Diagram Render Error" overlay is rendered over the container
ErrorOverlayShown ==
  ContainerMounted(isExpanded, architectureDiagram) /\ diagramError

\* a Copy button is rendered and handleCopyMermaidCode writes the text to
\* the clipboard
CopyEnabled ==
  /\ isExpanded
  /\ architectureDiagram # NoDiagram
  /\ Syntax # NoText

\* a button bound to handleOpenInMermaidChart is rendered; the handler
\* opens mermaid_chart_url or a mermaid.live URL
OpenEnabled ==
  /\ isExpanded
  /\ architectureDiagram # NoDiagram

(***************************************************************************)
(* Properties of the panel's display                                       *)
(***************************************************************************)
\* C18: parser fallback in the panel.  An expanded panel whose payload
\* carries a text but neither components nor connections displays the
\* components and connections parseMermaidDiagram extracts from the text;
\* a payload that carries components has its components and connections
\* displayed.
PanelParserFallback ==
  (isExpanded /\ architectureDiagram # NoDiagram)
  => /\ (/\ architectureDiagram.components = NoList
         /\ architectureDiagram.connections = NoList
         /\ Syntax # NoText)
        => /\ DisplayedComponents = parseMermaidDiagram(Syntax).components
           /\ DisplayedConnections = parseMermaidDiagram(Syntax).relationships
     /\ architectureDiagram.components # NoList
        => /\ DisplayedComponents = architectureDiagram.components
           /\ DisplayedConnections = architectureDiagram.connections

\* C19: the artifact is kept for redisplay.  When the panel is collapsed
\* while it shows the rendered artifact of the current text and is then
\* expanded again, it shows that artifact again and the engine is not
\* invoked.
ArtifactKeptForRedisplay ==
  [][(/\ event.type = "toggle"
      /\ ~isExpanded
      /\ event.shown = SvgOf(Syntax)
      /\ event'.type = "toggle")
     => (mermaidRef' = SvgOf(Syntax) /\ engineCalls' = engineCalls)]_vars

\* C20: a render failure changes only the render state.  The step of a
\* rejected render leaves the dashboard's generation result unchanged, and
\* whenever the failure is displayed the copy action and the
\* open-in-external-editor action are enabled.
RenderFailureChangesOnlyRenderState ==
  [][/\ event'.type = "rejected" => dashboardResult' = dashboardResult
     /\ ErrorOverlayShown' => (CopyEnabled' /\ OpenEnabled')]_vars

\* C20 witness: a render of graph TD\nA-->B was rejected; the panel shows
\* the error, the result still holds its files, resources, cost and
\* diagram, and both actions are enabled
RenderFailureChangesOnlyRenderStateWitness ==
  /\ event.type = "rejected"
  /\ ErrorOverlayShown
  /\ mermaidRef = ErrorMarkup
  /\ Syntax = <<103, 114, 97, 112, 104, 32, 84, 68, 10, 65, 45, 45, 62, 66>>
  /\ dashboardResult = ResultWith(architectureDiagram)
  /\ CopyEnabled
  /\ OpenEnabled

\* C21: a new fingerprint invalidates the old result.  Right after the
\* panel adopts a changed diagram text, its container holds neither the
\* artifact nor the error block of the previous text.
NewTextInvalidatesOldResult ==
  [][(event'.type = "submit" /\ event'.changed)
     => mermaidRef' \in {NullRef, EmptyContainer}]_vars

\* C25: error flag and artifact are mutually exclusive.  In no reachable
\* state is the error flag set while the container holds a rendered
\* artifact.
ErrorExcludesArtifact ==
  ~(diagramError /\ mermaidRef.kind = "svg")

\* C22: every directed-edge marker is recognised.  A text whose only line
\* is X <marker> Y, the marker a run of -, . or = followed by >, is parsed
\* into exactly the connection from X to Y.
EveryEdgeMarkerRecognised ==
  \A X \in EdgeEnds.fromIds, marker \in EdgeMarkers, Y \in EdgeEnds.toIds :
    (/\ result.op = "parseMermaidDiagram"
     /\ diagramSpec.rawText = MarkerEdge(X, marker, Y))
    => /\ Len(result.out.relationships) = 1
       /\ result.out.relationships[1].from = X
       /\ result.out.relationships[1].to = Y

\* C23: only bare headers are skipped.  The line graphql --> db, whose
\* first identifier begins with the letters graph, is parsed into the
\* connection from graphql to db.
OnlyBareHeadersSkipped ==
  (/\ result.op = "parseMermaidDiagram"
   /\ diagramSpec.rawText = <<103, 114, 97, 112, 104, 113, 108, 32, 45, 45, 62, 32, 100, 98>>)
  => \E i \in 1..Len(result.out.relationships) :
       /\ result.out.relationships[i].from = <<103, 114, 97, 112, 104, 113, 108>>
       /\ result.out.relationships[i].to = <<100, 98>>

\* the trimmed lines of a text that the parser does not skip
ParsedLines(mermaidCode) ==
  SelectSeq([k \in 1..Len(split(mermaidCode)) |-> trim(split(mermaidCode)[k])],
            LAMBDA line : ~SkippedLine(line))

\* C30: at most one connection per line.  The connections of the output
\* map, in order, to distinct non-skipped lines in source order, each
\* being the leftmost arrow match of its line (from the first position at
\* which the arrow expression matches); equal connections of different
\* lines are all kept.
OneConnectionPerLine ==
  (result.op = "parseMermaidDiagram" /\ IsString(diagramSpec.rawText))
  => LET lines == ParsedLines(diagramSpec.rawText)
         rel == result.out.relationships
     IN  /\ Len(rel) <= Len(lines)
         /\ \E f \in [1..Len(rel) -> 1..Len(lines)] :
              /\ \A i \in 1..(Len(rel) - 1) : f[i] < f[i + 1]
              /\ \A i \in 1..Len(rel) :
                   \E k \in 1..Len(lines[f[i]]) :
                     /\ ArrowMatchAt(lines[f[i]], k).ok
                     /\ \A j \in 1..(k - 1) : ~ArrowMatchAt(lines[f[i]], j).ok
                     /\ rel[i].from = ArrowMatchAt(lines[f[i]], k).from
                     /\ rel[i].to = ArrowMatchAt(lines[f[i]], k).to
         /\ diagramSpec.rawText = <<65, 32, 45, 45, 62, 32, 66, 32, 45, 45, 62, 32, 67>>
            => (Len(rel) = 1 /\ rel[1].from = <<65>> /\ rel[1].to = <<66>>)
         /\ diagramSpec.rawText = <<65, 32, 45, 45, 62, 32, 66, 10, 65, 32, 45, 45, 62, 32, 66>>
            => (Len(rel) = 2 /\ rel[1] = rel[2])

\* C30 witness: the chained line A --> B --> C was parsed into the single
\* connection from A to B
OneConnectionPerLineWitness ==
  /\ result.op = "parseMermaidDiagram"
  /\ diagramSpec.rawText = <<65, 32, 45, 45, 62, 32, 66, 32, 45, 45, 62, 32, 67>>
  /\ Len(result.out.relationships) = 1
  /\ result.out.relationships[1].from = <<65>>
  /\ result.out.relationships[1].to = <<66>>

(***************************************************************************)
(* Properties of validateMermaidSyntax and enhanceMermaidCode              *)
(***************************************************************************)
\* C24: styling directives are not parsed into graph data.  For a text
\* that validates, parsing the text enhanceMermaidCode returns yields the
\* components and the connections of parsing the text itself.
StylingNotParsed ==
  (/\ result.op = "enhanceMermaidCode"
   /\ validateMermaidSyntax(diagramSpec.rawText))
  => /\ Elements(parseMermaidDiagram(result.out).components)
        = Elements(parseMermaidDiagram(diagramSpec.rawText).components)
     /\ parseMermaidDiagram(result.out).relationships
        = parseMermaidDiagram(diagramSpec.rawText).relationships

\* C27: validateMermaidSyntax returns true for a non-empty string whose
\* first line begins with a listed diagram type, unbalanced brackets or
\* not, and false for a non-string, an empty string and a string whose
\* first line begins with none of the types (even ignoring surrounding
\* white space and letter case).
ValidateByFirstLine ==
  result.op = "validateMermaidSyntax"
  => LET code == diagramSpec.rawText IN
     /\ (/\ IsString(code)
         /\ code # <<>>
         /\ \E type \in validDiagramTypes : startsWith(split(code)[1], type))
        => result.out = TRUE
     /\ (\/ ~IsString(code)
         \/ code = <<>>
         \/ \A type \in validDiagramTypes :
              ~startsWith(toLowerCase(split(trim(code))[1]), toLowerCase(type)))
        => result.out = FALSE

\* C28: enhanceMermaidCode is idempotent.  Enhancing the returned text
\* again with the same provider returns it unchanged, and a text that
\* does not validate is returned as it is.
EnhanceIdempotent ==
  result.op = "enhanceMermaidCode"
  => /\ enhanceMermaidCode(result.out, result.provider) = result.out
     /\ ~validateMermaidSyntax(diagramSpec.rawText)
        => result.out = diagramSpec.rawText

\* C28 witness: graph TD\nA --> B was enhanced for azure: the classDef
\* lines were appended, and enhancing the result again changes nothing
EnhanceIdempotentWitness ==
  /\ result.op = "enhanceMermaidCode"
  /\ result.provider = "azure"
  /\ diagramSpec.rawText = <<103, 114, 97, 112, 104, 32, 84, 68, 10, 65, 32, 45, 45, 62, 32, 66>>
  /\ Len(result.out) > Len(diagramSpec.rawText)
  /\ includes(result.out, <<102, 105, 108, 108, 58, 35, 48, 48, 55, 56, 68, 52>>)
  /\ enhanceMermaidCode(result.out, "azure") = result.out

(***************************************************************************)
(* The pages: EnhancedDashboard and the validating Dashboard               *)
(***************************************************************************)
\* texts typed into the description field, as UTF-16 code units: the empty
\* text, three spaces, vm, hello world, Create a VPC
Descriptions ==
  {<<>>,
   <<32, 32, 32>>,
   <<118, 109>>,
   <<104, 101, 108, 108, 111, 32, 119, 111, 114, 108, 100>>,
   <<67, 114, 101, 97, 116, 101, 32, 97, 32, 86, 80, 67>>}

\* the provider buttons of both pages
CloudProviders == {"aws", "azure", "gcp"}

\* localStorage.getItem('token'): null before a login, a token after it
Tokens == {"null", "jwt"}

\* generateCode(...args): the post made by axios.  The function declares
\* three parameters (description, provider, token); a fourth argument is
\* not bound to anything
generateCodeForwardingFlag(args) ==
  [url |-> "/api/generate",
   data |-> IF Len(args) > 3
            THEN [description |-> args[1], provider |-> args[2],
                  include_diagram |-> args[4]]
            ELSE [description |-> args[1], provider |-> args[2]],
   headers |-> [Authorization |-> <<"Bearer ", args[3]>>]]

generateCode(args) ==
  [url |-> "/api/generate",
   data |-> [description |-> args[1], provider |-> args[2]],
   headers |-> [Authorization |-> <<"Bearer ", args[3]>>]]

\* the history of posts keeps the last two: the arguments of the call and
\* the request that left
Posted(args) ==
  LET entry == [args |-> args, request |-> generateCode(args)]
  IN IF Len(requests) < 2 THEN Append(requests, entry)
     ELSE <<requests[2], entry>>

\* ---- EnhancedDashboard ----

\* textarea onChange: setDescription(e.target.value)
EnhancedSetDescription(value) ==
  /\ value # enhancedDashboard.description
  /\ enhancedDashboard' = [enhancedDashboard EXCEPT !.description = value]
  /\ pageEvent' = "change"
  /\ UNCHANGED <<panelVars, codecVars, dashboard, requests>>

\* ProviderSelector onProviderChange: setProvider(provider.key)
SetProvider(provider) ==
  /\ enhancedDashboard' = [enhancedDashboard EXCEPT !.provider = provider]
  /\ pageEvent' = "provider"
  /\ UNCHANGED <<panelVars, codecVars, dashboard, requests>>

\* the Generate Diagram checkbox: setIncludeDiagram(e.target.checked)
SetIncludeDiagram ==
  /\ enhancedDashboard' =
       [enhancedDashboard EXCEPT !.includeDiagram = ~@]
  /\ pageEvent' = "checkbox"
  /\ UNCHANGED <<panelVars, codecVars, dashboard, requests>>

\* handleGenerate up to its await.  The button is disabled while the text
\* is blank or a generation is running; the handler tests the blank text
\* again
EnhancedHandleGenerate(token) ==
  /\ trim(enhancedDashboard.description) # <<>>
  /\ ~enhancedDashboard.isGenerating
  /\ enhancedDashboard' = [enhancedDashboard EXCEPT !.isGenerating = TRUE,
                                                    !.result = "null"]
  /\ requests' = Posted(<<enhancedDashboard.description,
                          enhancedDashboard.provider, token,
                          enhancedDashboard.includeDiagram>>)
  /\ pageEvent' = "generate"
  /\ UNCHANGED <<panelVars, codecVars, dashboard>>

\* handleGenerate after its await: res.data on success, the invalid-request
\* object of the catch block on failure, then the finally block
EnhancedGenerateSettled(ok) ==
  /\ enhancedDashboard.isGenerating
  /\ enhancedDashboard' =
       [enhancedDashboard EXCEPT !.result = IF ok THEN "data" ELSE "invalid",
                                 !.isGenerating = FALSE]
  /\ pageEvent' = IF ok THEN "resolved" ELSE "rejected"
  /\ UNCHANGED <<panelVars, codecVars, dashboard, requests>>

NextEnhancedDashboard ==
  \/ \E value \in Descriptions : EnhancedSetDescription(value)
  \/ \E provider \in CloudProviders : SetProvider(provider)
  \/ SetIncludeDiagram
  \/ \E token \in Tokens : EnhancedHandleGenerate(token)
  \/ \E ok \in BOOLEAN : EnhancedGenerateSettled(ok)

SpecEnhancedDashboard == Init /\ [][NextEnhancedDashboard]_vars

\* ---- the validating Dashboard ----

\* infraKeywords
infraKeywords ==
  {<<118, 109>>,
   <<118, 105, 114, 116, 117, 97, 108, 32, 109, 97, 99, 104, 105, 110,
    101>>,
   <<101, 99, 50>>,
   <<105, 110, 115, 116, 97, 110, 99, 101>>,
   <<115, 101, 114, 118, 101, 114>>,
   <<99, 111, 109, 112, 117, 116, 101>>,
   <<118, 112, 99>>,
   <<110, 101, 116, 119, 111, 114, 107>>,
   <<115, 117, 98, 110, 101, 116>>,
   <<115, 101, 99, 117, 114, 105, 116, 121, 32, 103, 114, 111, 117, 112>>,
   <<102, 105, 114, 101, 119, 97, 108, 108>>,
   <<100, 97, 116, 97, 98, 97, 115, 101>>,
   <<114, 100, 115>>,
   <<109, 121, 115, 113, 108>>,
   <<112, 111, 115, 116, 103, 114, 101, 115, 113, 108>>,
   <<115, 116, 111, 114, 97, 103, 101>>,
   <<115, 51>>,
   <<98, 108, 111, 98>>,
   <<108, 111, 97, 100, 32, 98, 97, 108, 97, 110, 99, 101, 114>>,
   <<97, 108, 98>>,
   <<110, 108, 98>>,
   <<97, 112, 105, 32, 103, 97, 116, 101, 119, 97, 121>>,
   <<108, 97, 109, 98, 100, 97>>,
   <<102, 117, 110, 99, 116, 105, 111, 110>>,
   <<107, 117, 98, 101, 114, 110, 101, 116, 101, 115>>,
   <<99, 111, 110, 116, 97, 105, 110, 101, 114>>,
   <<100, 111, 99, 107, 101, 114>>,
   <<116, 101, 114, 114, 97, 102, 111, 114, 109>>,
   <<105, 110, 102, 114, 97, 115, 116, 114, 117, 99, 116, 117, 114, 101>>,
   <<99, 108, 111, 117, 100>>,
   <<97, 119, 115>>,
   <<97, 122, 117, 114, 101>>,
   <<103, 99, 112>>,
   <<100, 101, 112, 108, 111, 121>>,
   <<112, 114, 111, 118, 105, 115, 105, 111, 110>>,
   <<99, 114, 101, 97, 116, 101>>}

\* validateInput(desc): the errors object, {} for an accepted text
validateInput(desc) ==
  IF trim(desc) = <<>>
  THEN [k \in {"description"} |-> "Description cannot be empty"]
  ELSE IF Len(desc) < 10
  THEN [k \in {"description"} |->
          "Description must be at least 10 characters"]
  ELSE IF Len(desc) > 1000
  THEN [k \in {"description"} |->
          "Description cannot exceed 1000 characters"]
  ELSE IF ~\E keyword \in infraKeywords :
             includes(toLowerCase(desc), keyword)
  THEN [k \in {"description"} |->
          "Please describe cloud infrastructure needs (VPC, EC2, databases, etc.)"]
  ELSE [k \in {} |-> ""]

\* the disabled attribute of the Generate button
GenerateDisabled ==
  \/ trim(dashboard.description) = <<>>
  \/ dashboard.isGenerating
  \/ Cardinality(DOMAIN dashboard.errors) > 0

\* textarea onChange: setDescription, and a truthy errors.description is
\* replaced by '' ({...errors, description: ''} keeps the key)
OnDescriptionChange(value) ==
  /\ value # dashboard.description
  /\ dashboard' =
       [dashboard EXCEPT
          !.description = value,
          !.errors = IF "description" \in DOMAIN @ /\ @["description"] # ""
                     THEN [@ EXCEPT !["description"] = ""]
                     ELSE @]
  /\ pageEvent' = "change"
  /\ UNCHANGED <<panelVars, codecVars, enhancedDashboard, requests>>

\* provider button: setSelectedProvider(provider)
SetSelectedProvider(provider) ==
  /\ dashboard' = [dashboard EXCEPT !.selectedProvider = provider]
  /\ pageEvent' = "provider"
  /\ UNCHANGED <<panelVars, codecVars, enhancedDashboard, requests>>

\* handleGenerate up to its first await, run by a click on the enabled
\* button: the validation result replaces errors; an accepted text is posted
handleGenerate(token) ==
  /\ ~GenerateDisabled
  /\ LET validationErrors == validateInput(dashboard.description)
     IN IF Cardinality(DOMAIN validationErrors) > 0
        THEN /\ dashboard' = [dashboard EXCEPT !.errors = validationErrors]
             /\ UNCHANGED requests
        ELSE /\ dashboard' =
                  [dashboard EXCEPT !.errors = validationErrors,
                                    !.isGenerating = TRUE,
                                    !.result = "null",
                                    !.awaiting = @ \cup {"generate"}]
             /\ requests' = Posted(<<dashboard.description,
                                     dashboard.selectedProvider, token>>)
  /\ pageEvent' = "generate"
  /\ UNCHANGED <<panelVars, codecVars, enhancedDashboard>>

\* the post resolved: setResult(res.data), then loadHistory is awaited
GenerateResolved ==
  /\ "generate" \in dashboard.awaiting
  /\ dashboard' = [dashboard EXCEPT
                     !.result = "data",
                     !.awaiting = (@ \ {"generate"}) \cup {"reload"}]
  /\ pageEvent' = "resolved"
  /\ UNCHANGED <<panelVars, codecVars, enhancedDashboard, requests>>

\* the post rejected: the catch block stores the detail of the response,
\* or 'Error generating code', in errors.general; then the finally block
GenerateRejected(errorMessage) ==
  /\ "generate" \in dashboard.awaiting
  /\ dashboard' = [dashboard EXCEPT
                     !.errors = [k \in {"general"} |-> errorMessage],
                     !.isGenerating = FALSE,
                     !.awaiting = @ \ {"generate"}]
  /\ pageEvent' = "rejected"
  /\ UNCHANGED <<panelVars, codecVars, enhancedDashboard, requests>>

\* a loadHistory call settled: setHistory(historyData) on success, nothing
\* on failure (the error is caught and logged).  The call awaited by
\* handleGenerate is followed by its finally block
LoadHistorySettled(call, ok, historyData) ==
  /\ call \in dashboard.awaiting
  /\ dashboard' = [dashboard EXCEPT
                     !.history = IF ok THEN historyData ELSE @,
                     !.isGenerating = IF call = "reload" THEN FALSE ELSE @,
                     !.awaiting = @ \ {call}]
  /\ pageEvent' = "history"
  /\ UNCHANGED <<panelVars, codecVars, enhancedDashboard, requests>>

\* handleHistoryItemClick(historyItem); activeTab and showHistory, which
\* only select what is displayed, are left out
handleHistoryItemClick(historyItem) ==
  /\ historyItem \in dashboard.history
  /\ dashboard' = [dashboard EXCEPT
                     !.description = historyItem.description,
                     !.selectedProvider = historyItem.provider,
                     !.result = "history"]
  /\ pageEvent' = "historyItem"
  /\ UNCHANGED <<panelVars, codecVars, enhancedDashboard, requests>>

\* what getGenerationHistory may return: earlier generations of
\* Create a VPC
HistoryItems ==
  [description : {<<67, 114, 101, 97, 116, 101, 32, 97, 32, 86, 80, 67>>},
   provider : {"aws", "gcp"}]

NextDashboard ==
  \/ \E value \in Descriptions : OnDescriptionChange(value)
  \/ \E provider \in CloudProviders : SetSelectedProvider(provider)
  \/ \E token \in Tokens : handleGenerate(token)
  \/ GenerateResolved
  \/ \E errorMessage \in {"Error generating code", "Rate limit exceeded"} :
       GenerateRejected(errorMessage)
  \/ \E call \in {"mount", "reload"}, ok \in BOOLEAN,
        historyData \in SUBSET HistoryItems :
       LoadHistorySettled(call, ok, historyData)
  \/ \E historyItem \in HistoryItems : handleHistoryItemClick(historyItem)

SpecDashboard == Init /\ [][NextDashboard]_vars

(***************************************************************************)
(* Properties of the pages                                                 *)
(***************************************************************************)
\* C29: the generate request is independent of the diagram toggle.  Two
\* runs of handleGenerate of EnhancedDashboard with the same description,
\* provider and token post identical requests, whatever the state of the
\* Generate Diagram checkbox in each run.
GenerateIgnoresDiagramToggle ==
  \A i, j \in 1..Len(requests) :
    (/\ Len(requests[i].args) = 4
     /\ Len(requests[j].args) = 4
     /\ SubSeq(requests[i].args, 1, 3) = SubSeq(requests[j].args, 1, 3))
    => requests[i].request = requests[j].request

\* C29 witness: the last two runs posted Create a VPC for gcp with the same
\* token, the first with the checkbox checked, the second with it unchecked
GenerateIgnoresDiagramToggleWitness ==
  /\ Len(requests) = 2
  /\ requests[1].args =
       <<<<67, 114, 101, 97, 116, 101, 32, 97, 32, 86, 80, 67>>,
         "gcp", "jwt", TRUE>>
  /\ requests[2].args =
       <<<<67, 114, 101, 97, 116, 101, 32, 97, 32, 86, 80, 67>>,
         "gcp", "jwt", FALSE>>

\* C26: recovery from a rejected generation.  When errors holds an entry
\* (a validation error under description or a backend error under general)
\* and the description is edited, the Generate button is enabled right
\* after the edit if the new description is not blank and no generation is
\* running.
EditReenablesGenerate ==
  [][(/\ pageEvent' = "change"
      /\ Cardinality(DOMAIN dashboard.errors) > 0
      /\ trim(dashboard'.description) # <<>>
      /\ ~dashboard'.isGenerating)
     => ~GenerateDisabled']_vars

====
